---- MODULE Spec2Model ----
(***************************************************************************)
(* Guard orchestration engine of the AI Safety Guardrails SDK              *)
(* (src/src/guardrails/core/guard.py): the stage-based rule pipeline, the  *)
(* RBAC pre-check, the Protect wrappers and the manual Check entry points. *)
(*                                                                         *)
(* One guarded call is modelled from the moment the caller enters          *)
(* sync_wrapper / async_wrapper / check / check_async until it returns or  *)
(* raises.  One action is one iteration of the stage runner's loop (role   *)
(* validation, evaluation, sink dispatch and the fail-fast decision), the  *)
(* unit between two suspension points of the async variant.                *)
(***************************************************************************)
EXTENDS Integers, Sequences, FiniteSets, TLC

(* ------------------------------ bounds --------------------------------- *)
\* number of rules handed to Guard(rules=...)
NumRules == 2
\* longest result list of a GuardReport built directly
MaxResults == 2
\* number of rules of a Guard that serves two calls at a time
ConcRules == 1

(* --------------------------- value universes --------------------------- *)
Stages == {"pre", "post"}
\* stage tuples a rule can be built with (non-empty, BaseRule.__init__)
StageChoices == {{"pre"}, {"post"}, {"pre", "post"}}
\* payloads: one that detection rules accept and one they reject
Payloads == {"clean", "pii"}
\* required_roles of a rule
RequiredRoleChoices == {{}, {"admin"}}
\* what a configured rbac_resolver may answer
ResolverOutputs == {{"user"}, {"admin", "user"}}
\* behaviour of a rule's evaluate body: always passing, a detector that
\* fails on an offending payload, or a body that raises
Behaviours == {"pass", "detect", "fault"}
\* wall-clock latencies the engine can measure around an evaluation
Latencies == {7}
\* the latency_ms a rule of its own making writes into the result it returns
OwnLatency == 99
None == "None"

(* ------------------------------- state --------------------------------- *)
VARIABLES
    rules,            \* Guard.rules: the configured rule list
    rbac_resolver,    \* TRUE iff Guard.rbac_resolver is not None
    pc,               \* position of the guarded call
    mode,             \* "protect" or "check"
    isAsync,          \* TRUE on the async_wrapper / check_async / _run_stage path
    stage,            \* stage of the current stage run
    raise_on_failure, \* argument of the current stage run
    payload,          \* payload argument of the current stage run
    heap,             \* RuleContext objects allocated so far, by identity
    refs,             \* per context: identities of the objects its fields refer to
    ctx,              \* identity of the context of the current stage run
    callerCtx,        \* identity of the context supplied to check (0: none)
    roles,            \* roles resolved for the current stage run
    idx,              \* 1-based position in _rules_for_stage(stage)
    results,          \* local `results` of the current stage run
    pre_results,      \* check's local pre_results
    post_results,     \* check's local post_results
    funcCalls,        \* invocations of the wrapped callable
    funcResult,       \* `result` local of the wrapper
    resolverCalls,    \* invocations of the rbac_resolver / _resolve_roles
    validated,        \* log of validate_roles calls of the current call
    evalLog,          \* log of evaluate / evaluate_async invocations of the current call
    auditEvents,      \* events audit_logger.log_event received during the current call
    perfEvents,       \* (result, context) performance_monitor.record received during it
    outcome,          \* "none", "returned" or "raised"
    returned,         \* value returned by a protected call
    report,           \* GuardReport returned by check
    raised,           \* exception that reached the caller
    first,            \* what an earlier check call on this Guard ended with
    seen,             \* what the caller read from report.passed / report.failures
    mutation,         \* an in-place change made to an object reached through a context
    other,            \* the locals of a second call on this Guard while it is suspended
    given,            \* arguments of the constructor call made by the caller
    thrown,           \* exception that reached the caller of a constructor or of a call outside the engine
    built,            \* the SchemaRule or PIIRule the constructor produced
    bpc,              \* position of the caller that builds and uses a rule on its own
    ruleResult,       \* RuleResult of evaluating `built` directly
    schema,           \* guardrails.guard.Guard.schema
    validators,       \* guardrails.guard.Guard._validators, by rule name
    vpc,              \* position of a call through guardrails.guard.Guard
    vstage,           \* stage argument of _run_validators
    vpayload,         \* payload argument of _run_validators
    vidx,             \* 1-based position in _validators
    vmode,            \* "wrapped" or "validate"
    vfuncCalls,       \* invocations of the callable wrapped by guardrails.guard.Guard
    config,           \* the SafetyConfig handed to safe_llm
    chain,            \* GuardChain.guards: the guards kept at construction, by position in config.guards
    wpc,              \* position of a call through the safe_llm wrapper or the GuardChain
    wmode,            \* "wrapper", or the GuardChain method called directly
    method,           \* the GuardChain method under way: "check_input" or "check_output"
    wtext,            \* the prompt or response text the chain is checking
    gidx,             \* 1-based position in GuardChain.guards
    responses,        \* local `responses` / `guard_responses` of the chain method
    input_responses,  \* wrapper local
    output_responses, \* wrapper local
    consulted,        \* log of guard.check_input / guard.check_output invocations
    llmCalls,         \* log of invocations of llm_function
    response,         \* wrapper local: what llm_function returned
    wreturned         \* what the caller of the wrapper or of the chain method got back

vars == <<rules, rbac_resolver, pc, mode, isAsync, stage, raise_on_failure,
          payload, heap, refs, ctx, callerCtx, roles, idx, results, pre_results,
          post_results, funcCalls, funcResult, resolverCalls, validated,
          evalLog, auditEvents, perfEvents, outcome, returned, report, raised,
          first, seen, mutation, other, given, thrown, built, bpc, ruleResult,
          schema, validators, vpc, vstage, vpayload, vidx, vmode, vfuncCalls,
          config, chain, wpc, wmode, method, wtext, gidx, responses,
          input_responses, output_responses, consulted, llmCalls, response,
          wreturned>>

cfgVars == <<rules, rbac_resolver>>

\* what only the caller of check holds
obsVars == <<first, seen>>

\* a rule constructed and evaluated on its own (rules/schema.py, rules/pii.py)
ruleVars == <<built, bpc, ruleResult>>

\* the decorator Guard of guardrails/guard.py and one call through it
legacyVars == <<schema, validators, vpc, vstage, vpayload, vidx, vmode, vfuncCalls>>

\* safe_llm and the GuardChain of safety_sdk, and one call through them
sdkVars == <<config, chain, wpc, wmode, method, wtext, gidx, responses,
             input_responses, output_responses, consulted, llmCalls, response,
             wreturned>>

\* the objects of the repository's other modules, which the engine never touches
libVars == <<given, thrown, ruleVars, legacyVars, sdkVars>>

\* what a single guarded call leaves alone: objects changed by their holders
\* afterwards, the locals of another call, and the other modules' objects
extVars == <<mutation, other, libVars>>

\* the engine's Guard, its calls and what their callers hold
engineVars == <<cfgVars, obsVars, mutation, other, pc, mode, isAsync, stage,
                raise_on_failure, payload, heap, refs, ctx, callerCtx, roles, idx,
                results, pre_results, post_results, funcCalls, funcResult,
                resolverCalls, validated, evalLog, auditEvents, perfEvents,
                outcome, returned, report, raised>>

(* --------------------------- data structures --------------------------- *)
\* RuleContext dataclass
RuleContext(inputs, output, metadata, user_id, session_id, tags) ==
    [inputs |-> inputs, output |-> output, metadata |-> metadata,
     user_id |-> user_id, session_id |-> session_id, tags |-> tags]

\* with_output as it would be if the output argument were dropped
with_output_dropped(c, output) ==
    RuleContext(c.inputs, c.output, c.metadata, c.user_id, c.session_id, c.tags)

\* RuleContext.with_output: a new context, metadata and tags copied
with_output(c, output) ==
    RuleContext(c.inputs, output, c.metadata, c.user_id, c.session_id, c.tags)

\* The objects a context's mutable fields refer to, by identity, and the
\* context it was derived from (0: built directly).
Refs(inputs, metadata, tags, origin) ==
    [inputs |-> inputs, metadata |-> metadata, tags |-> tags, origin |-> origin]

\* the k-th context allocated, built by RuleContext(...): every field is an
\* object of its own
FreshRefs(k) == Refs(3 * k - 2, 3 * k - 1, 3 * k, 0)

\* RuleContext.with_output on identities, for the k-th context allocated:
\* `inputs=self.inputs` hands over the same object, `dict(self.metadata)` and
\* `list(self.tags)` make new ones
with_output_refs(r, origin, k) == Refs(r.inputs, 3 * k - 1, 3 * k, origin)

\* RuleResult dataclass; latency_ms defaults to 0
RuleResult(rule, passed, stg, severity, details) ==
    [rule |-> rule, passed |-> passed, stage |-> stg, severity |-> severity,
     latency_ms |-> 0, details |-> details]

\* GuardReport dataclass; the context is held by reference
GuardReport(c, pre, post) ==
    [context |-> c, pre_results |-> pre, post_results |-> post]

NoReport == GuardReport(0, <<>>, <<>>)

\* GuardReport.passed
ReportPassed(r) ==
    \A i \in 1..Len(r.pre_results \o r.post_results) :
        (r.pre_results \o r.post_results)[i].passed

\* failures as it would be if the two lists were concatenated the other way
ReportFailuresPostFirst(r) ==
    SelectSeq(r.post_results \o r.pre_results, LAMBDA x : ~x.passed)

\* GuardReport.failures
ReportFailures(r) ==
    SelectSeq(r.pre_results \o r.post_results, LAMBDA x : ~x.passed)

(* ------------------------------ exceptions ----------------------------- *)
\* An exception object: class, what str(exc) mentions, the attributes of
\* GuardViolation (empty / 0 when the class has none) and the class of
\* __cause__.
Exc(cls, message, res, c, cause) ==
    [cls |-> cls, message |-> message, results |-> res, context |-> c,
     cause |-> cause]

NoMessage == [kind |-> "none", rule |-> 0, stage |-> "none"]
NoExc == Exc("none", NoMessage, <<>>, 0, "none")

\* GuardViolation(f"Guardrail '{rule.name}' failed during {stage}-stage
\* validation.", results=[result], context=context)
GuardViolation(rule, stg, result, c) ==
    Exc("GuardViolation", [kind |-> "failed", rule |-> rule.name, stage |-> stg],
        <<result>>, c, "none")

\* RBACError(f"Rule '{self.name}' requires roles ... but only ... were provided.")
RBACError(rule) ==
    Exc("RBACError", [kind |-> "requires_roles", rule |-> rule.name, stage |-> "none"],
        <<>>, 0, "none")

\* whatever the rule body raised; its text is the rule's own
RuleFault ==
    Exc("RuleFault", [kind |-> "fault", rule |-> 0, stage |-> "none"],
        <<>>, 0, "none")

\* whatever the wrapped callable raised
FuncFault ==
    Exc("FuncFault", [kind |-> "fault", rule |-> 0, stage |-> "none"],
        <<>>, 0, "none")

\* whatever audit_logger.log_event or performance_monitor.record raised
SinkFault ==
    Exc("SinkFault", [kind |-> "fault", rule |-> 0, stage |-> "none"],
        <<>>, 0, "none")

\* GuardConfigurationError(text); kind stands for the text
GuardConfigurationError(kind) ==
    Exc("GuardConfigurationError", [kind |-> kind, rule |-> 0, stage |-> "none"],
        <<>>, 0, "none")

\* the handler of the stage runner: `except Exception as exc: raise
\* GuardError(str(exc)) from exc`
ReRaise(exc) ==
    Exc("GuardError", exc.message, <<>>, 0, exc.cls)

(* -------------------------------- rules -------------------------------- *)
\* BaseRule.__init__ (name is the rule's position in the configuration)
BaseRule(name, stages, required_roles, enabled, behaviour) ==
    [name |-> name, stages |-> stages, required_roles |-> required_roles,
     enabled |-> enabled, behaviour |-> behaviour, severity |-> "high"]

\* BaseRule.supports_stage
supports_stage(rule, stg) == stg \in rule.stages

\* validate_roles as it would be if the early return tested the assigned
\* roles instead of the required ones
validate_roles_unassigned(rule, assigned_roles) ==
    IF assigned_roles = {} THEN TRUE
    ELSE rule.required_roles \subseteq assigned_roles

\* BaseRule.validate_roles: TRUE when it returns, FALSE when it raises RBACError
validate_roles(rule, assigned_roles) ==
    IF rule.required_roles = {} THEN TRUE
    ELSE rule.required_roles \subseteq assigned_roles

\* _rules_for_stage as it would be without the test of the enabled flag
rules_for_stage_any(stg) ==
    SelectSeq(rules, LAMBDA rule : supports_stage(rule, stg))

\* Guard._rules_for_stage
rules_for_stage(stg) ==
    SelectSeq(rules, LAMBDA rule : rule.enabled /\ supports_stage(rule, stg))

\* rule.evaluate(payload, context, stage): the body raises, or returns a
\* RuleResult.  The detector is PIIRule.evaluate (passed = not matches,
\* latency_ms left at its default); the always-passing rule is a subclass of
\* the caller's that fills in latency_ms itself.
evaluate(rule, p, stg) ==
    CASE rule.behaviour = "fault" ->
            [raises |-> TRUE, result |-> RuleResult(rule.name, FALSE, stg, rule.severity, "none")]
      [] rule.behaviour = "detect" ->
            [raises |-> FALSE,
             result |-> RuleResult(rule.name, p # "pii", stg, rule.severity,
                                   IF p = "pii" THEN "matches" ELSE "empty")]
      [] OTHER ->
            [raises |-> FALSE,
             result |-> [RuleResult(rule.name, TRUE, stg, rule.severity, "empty")
                            EXCEPT !.latency_ms = OwnLatency]]

\* evaluate_async as it would be if the base class answered with a passing
\* result instead of running evaluate
evaluate_async_passing(rule, p, stg) ==
    [raises |-> FALSE, result |-> RuleResult(rule.name, TRUE, stg, rule.severity, "empty")]

\* BaseRule.evaluate_async, not overridden: `return self.evaluate(payload, context, stage)`
evaluate_async(rule, p, stg) == evaluate(rule, p, stg)

\* _execute_rule as it would be without `result.latency_ms = latency_ms`
execute_rule_unmeasured(result, latency_ms) == result

\* Guard._execute_rule / _execute_rule_async: the result with the measured latency
execute_rule(result, latency_ms) == [result EXCEPT !.latency_ms = latency_ms]

\* the event dict built by Guard._after_rule
AuditEvent(result, c) ==
    [rule |-> result.rule, passed |-> result.passed, stage |-> result.stage,
     latency_ms |-> result.latency_ms, severity |-> result.severity,
     details |-> result.details, user_id |-> c.user_id,
     session_id |-> c.session_id, tags |-> c.tags]

\* the fail-fast test with the raise_on_failure flag inverted
ShouldAbortInverted(result, rof) == ~result.passed /\ ~rof

\* the fail-fast test applied to the pre stage only
ShouldAbortPreOnly(result, rof) == ~result.passed /\ rof /\ result.stage = "pre"

\* the fail-fast test without the raise_on_failure flag
ShouldAbortAnyMode(result, rof) == ~result.passed

\* the fail-fast test of the stage runner: `if not result.passed and raise_on_failure`
ShouldAbort(result, rof) == ~result.passed /\ rof

\* Guard._build_context
build_context(args) ==
    RuleContext(args, None, {<<"guard_name", "guard">>}, None, None, <<>>)

\* the default context of check: RuleContext(inputs=None, output=None, metadata={})
DefaultContext == RuleContext(None, None, {}, None, None, <<>>)

\* a context the caller of check built beforehand
CallerContext == RuleContext("orig", None, {}, "u1", "s1", <<"t1">>)

\* the rule currently at the head of the loop
CurrentRule == rules_for_stage(stage)[idx]

\* what the rule answers in this iteration: _execute_rule calls
\* rule.evaluate, _execute_rule_async awaits rule.evaluate_async
Evaluation ==
    IF isAsync THEN evaluate_async(CurrentRule, payload, stage)
    ELSE evaluate(CurrentRule, payload, stage)

(* -------------------------------- Init --------------------------------- *)
\* the rule objects a caller can hand to Guard(...)
RuleConfigs(name) ==
    { BaseRule(name, st, rr, TRUE, b) :
        st \in StageChoices, rr \in RequiredRoleChoices, b \in Behaviours }
    \cup
    \* a disabled rule: none of its other attributes is ever read, so one
    \* representative, the one that would do most harm if it ran
    { BaseRule(name, {"pre", "post"}, {"admin"}, FALSE, "fault") }

\* no object was changed in place
NoMutation == [ctx |-> 0, field |-> "none", before |-> <<>>]

\* nothing read from a Report yet
Unseen == [read |-> FALSE, passed |-> TRUE, failures |-> <<>>]

\* no earlier call
NoFirst ==
    [outcome |-> "none", report |-> NoReport, raised |-> NoExc, roles |-> {},
     evaluated |-> <<>>, context |-> DefaultContext, validated |-> <<>>,
     auditEvents |-> <<>>, perfEvents |-> <<>>, funcCalls |-> 0,
     funcResult |-> None, returned |-> None]

\* the locals and the observations of a call that has not started
IdleFrame ==
    [pc |-> "idle", mode |-> "none", isAsync |-> FALSE, stage |-> "none",
     raise_on_failure |-> FALSE, payload |-> None, ctx |-> 0, callerCtx |-> 0,
     roles |-> {}, idx |-> 0, results |-> <<>>, pre_results |-> <<>>,
     post_results |-> <<>>, funcCalls |-> 0, funcResult |-> None,
     resolverCalls |-> 0, validated |-> <<>>, evalLog |-> <<>>,
     auditEvents |-> <<>>, perfEvents |-> <<>>, outcome |-> "none",
     returned |-> None, report |-> NoReport, raised |-> NoExc]

\* there is no second call
NoFrame == [IdleFrame EXCEPT !.pc = "absent"]

\* no rule was constructed on its own
NoRule == [cls |-> "none"]

\* no RuleResult was returned to a caller that evaluates a rule on its own
NoResult == [rule |-> "none"]

\* schema=None of guardrails.guard.Guard
NoSchema == [kind |-> "none", fields |-> {}]

\* the payload of a call that has not started
NoPayload == [fields |-> {}, pii |-> FALSE]

\* no SafetyConfig was made
NoConfig == [guards |-> <<>>, audit_enabled |-> FALSE, fail_open |-> FALSE]

\* llm_function has not returned
NoResponse == [kind |-> "none", content |-> "none"]

\* the caller of the wrapper or of the chain got nothing back
NoReturn == [kind |-> "none"]

\* nothing of the other modules exists: no rule built on its own, no
\* decorator Guard
NoLib ==
    /\ given = NoRule
    /\ thrown = NoExc
    /\ built = NoRule
    /\ bpc = "new"
    /\ ruleResult = NoResult
    /\ schema = NoSchema
    /\ validators = <<>>
    /\ vpc = "new"
    /\ vstage = "none"
    /\ vpayload = NoPayload
    /\ vidx = 0
    /\ vmode = "none"
    /\ vfuncCalls = 0
    /\ config = NoConfig
    /\ chain = <<>>
    /\ wpc = "new"
    /\ wmode = "none"
    /\ method = "none"
    /\ wtext = None
    /\ gidx = 0
    /\ responses = <<>>
    /\ input_responses = <<>>
    /\ output_responses = <<>>
    /\ consulted = <<>>
    /\ llmCalls = <<>>
    /\ response = NoResponse
    /\ wreturned = NoReturn

\* no call has started: no context, no results, no events
NoCall ==
    /\ mode = "none"
    /\ isAsync = FALSE
    /\ stage = "none"
    /\ raise_on_failure = FALSE
    /\ payload = None
    /\ heap = <<>>
    /\ refs = <<>>
    /\ ctx = 0
    /\ callerCtx = 0
    /\ roles = {}
    /\ idx = 0
    /\ results = <<>>
    /\ pre_results = <<>>
    /\ post_results = <<>>
    /\ funcCalls = 0
    /\ funcResult = None
    /\ resolverCalls = 0
    /\ validated = <<>>
    /\ evalLog = <<>>
    /\ auditEvents = <<>>
    /\ perfEvents = <<>>
    /\ outcome = "none"
    /\ returned = None
    /\ report = NoReport
    /\ raised = NoExc
    /\ first = NoFirst
    /\ seen = Unseen
    /\ mutation = NoMutation
    /\ NoLib

\* a constructed Guard on which no call has started
Idle ==
    /\ pc = "idle"
    /\ NoCall
    /\ other = NoFrame

\* Guard.__init__ with a non-empty rule list, with or without a resolver
Init ==
    /\ rules \in { r \in [1..NumRules -> UNION { RuleConfigs(i) : i \in 1..NumRules }] :
                     \A i \in 1..NumRules : r[i].name = i }
    /\ rbac_resolver \in BOOLEAN
    /\ Idle

(* ------------------------------ entry points --------------------------- *)
\* the start of _run_stage_sync / _run_stage with the given arguments
EnterStage(stg, p, c, rof) ==
    /\ stage' = stg
    /\ payload' = p
    /\ ctx' = c
    /\ raise_on_failure' = rof
    /\ pc' = "resolve"

\* Guard.protect: sync_wrapper (a = FALSE) or async_wrapper (a = TRUE) is
\* called with args; the context is built and the pre stage is entered
Protect(a, args) ==
    /\ pc = "idle"
    /\ mode' = "protect"
    /\ isAsync' = a
    /\ heap' = Append(heap, build_context(args))
    /\ refs' = Append(refs, FreshRefs(Len(heap) + 1))
    /\ callerCtx' = 0
    /\ EnterStage("pre", heap'[Len(heap')].inputs, Len(heap'), TRUE)
    /\ UNCHANGED <<cfgVars, obsVars, extVars, roles, idx, results, pre_results, post_results,
                   funcCalls, funcResult, resolverCalls, validated, evalLog,
                   auditEvents, perfEvents, outcome, returned, report, raised>>

\* check / check_async as they would be if the post branch stored the
\* payload in the context it was given, the way the pre branch does
CheckStoringOutput(a, p, stg, supplied) ==
    /\ pc = "idle"
    /\ mode' = "check"
    /\ isAsync' = a
    /\ callerCtx' = IF supplied THEN Len(heap) + 1 ELSE 0
    /\ LET context == IF supplied THEN CallerContext ELSE DefaultContext
           k == Len(heap) + 1 IN
         IF stg = "pre"
         THEN /\ heap' = Append(heap, [context EXCEPT !.inputs = p])
              /\ refs' = Append(refs, FreshRefs(k))
              /\ EnterStage("pre", p, k, FALSE)
         ELSE /\ heap' = Append(heap, [context EXCEPT !.output = p])
              /\ refs' = Append(refs, FreshRefs(k))
              /\ EnterStage("post", p, k, FALSE)
    /\ UNCHANGED <<cfgVars, obsVars, extVars, roles, idx, results, pre_results, post_results,
                   funcCalls, funcResult, resolverCalls, validated, evalLog,
                   auditEvents, perfEvents, outcome, returned, report, raised>>

\* Guard.check (a = FALSE) / Guard.check_async (a = TRUE) up to the stage run:
\* `context or RuleContext(...)`, then the pre branch stores the payload in
\* the context and the post branch derives a context with the output
Check(a, p, stg, supplied) ==
    /\ pc = "idle"
    /\ mode' = "check"
    /\ isAsync' = a
    /\ callerCtx' = IF supplied THEN Len(heap) + 1 ELSE 0
    /\ LET context == IF supplied THEN CallerContext ELSE DefaultContext
           k == Len(heap) + 1 IN
         IF stg = "pre"
         THEN /\ heap' = Append(heap, [context EXCEPT !.inputs = p])
              /\ refs' = Append(refs, FreshRefs(k))
              /\ EnterStage("pre", p, k, FALSE)
         ELSE /\ heap' = heap \o <<context, with_output(context, p)>>
              /\ refs' = refs \o <<FreshRefs(k), with_output_refs(FreshRefs(k), k, k + 1)>>
              /\ EnterStage("post", p, k + 1, FALSE)
    /\ UNCHANGED <<cfgVars, obsVars, extVars, roles, idx, results, pre_results, post_results,
                   funcCalls, funcResult, resolverCalls, validated, evalLog,
                   auditEvents, perfEvents, outcome, returned, report, raised>>

(* ------------------------------ stage runner --------------------------- *)
\* the role resolution as it would be if a Guard without a resolver granted
\* every role instead of none
ResolveRolesPermissive ==
    /\ pc = "resolve"
    /\ results' = <<>>
    /\ IF rbac_resolver
       THEN /\ \E R \in ResolverOutputs : roles' = R
            /\ resolverCalls' = resolverCalls + 1
       ELSE /\ roles' = {"admin", "user"}
            /\ UNCHANGED resolverCalls
    /\ idx' = 1
    /\ pc' = "rules"
    /\ UNCHANGED <<cfgVars, obsVars, extVars, mode, isAsync, stage, raise_on_failure, payload, heap, refs,
                   ctx, callerCtx, pre_results, post_results, funcCalls,
                   funcResult, validated, evalLog, auditEvents, perfEvents,
                   outcome, returned, report, raised>>

\* the start of a stage run as it would be if `results` were a list kept
\* between runs instead of a fresh local
ResolveRolesKeepingResults ==
    /\ pc = "resolve"
    /\ UNCHANGED results
    /\ IF rbac_resolver
       THEN /\ \E R \in ResolverOutputs : roles' = R
            /\ resolverCalls' = resolverCalls + 1
       ELSE /\ roles' = {}
            /\ UNCHANGED resolverCalls
    /\ idx' = 1
    /\ pc' = "rules"
    /\ UNCHANGED <<cfgVars, obsVars, extVars, mode, isAsync, stage, raise_on_failure, payload, heap, refs,
                   ctx, callerCtx, pre_results, post_results, funcCalls,
                   funcResult, validated, evalLog, auditEvents, perfEvents,
                   outcome, returned, report, raised>>

\* results = []; roles = list(self._resolve_roles(context))
ResolveRoles ==
    /\ pc = "resolve"
    /\ results' = <<>>
    /\ IF rbac_resolver
       THEN /\ \E R \in ResolverOutputs : roles' = R
            /\ resolverCalls' = resolverCalls + 1
       ELSE /\ roles' = {}
            /\ UNCHANGED resolverCalls
    /\ idx' = 1
    /\ pc' = "rules"
    /\ UNCHANGED <<cfgVars, obsVars, extVars, mode, isAsync, stage, raise_on_failure, payload, heap, refs,
                   ctx, callerCtx, pre_results, post_results, funcCalls,
                   funcResult, validated, evalLog, auditEvents, perfEvents,
                   outcome, returned, report, raised>>

\* the loop has a next rule
InLoop == pc = "rules" /\ idx \in 1..Len(rules_for_stage(stage))

\* an exception leaves the stage runner and the wrapper / check unhandled
Raise(exc) ==
    /\ raised' = exc
    /\ outcome' = "raised"
    /\ pc' = "done"

\* what validate_roles was called with, and how far the call had got by
\* then: results appended in this stage run, events each sink had received
ValidatedEntry(rule) ==
    [rule |-> rule.name, stage |-> stage, roles |-> roles,
     resolverCalls |-> resolverCalls, nresults |-> Len(results),
     naudit |-> Len(auditEvents), nperf |-> Len(perfEvents)]

\* what the rule body was called with, when, and how it ended
\* ("passed", "failed" or "raised")
EvalEntry(rule, ended) ==
    [rule |-> rule.name, stage |-> stage, payload |-> payload, ctx |-> ctx,
     context |-> heap[ctx], funcCalls |-> funcCalls, funcResult |-> funcResult,
     roles |-> roles, async |-> isAsync, ended |-> ended,
     nresults |-> Len(results), naudit |-> Len(auditEvents),
     nperf |-> Len(perfEvents)]

\* the iteration as it would be if a rule whose roles are missing were
\* skipped and the loop went on
RuleDeniedSkipping ==
    /\ InLoop
    /\ ~validate_roles(CurrentRule, roles)
    /\ validated' = Append(validated, ValidatedEntry(CurrentRule))
    /\ idx' = idx + 1
    /\ UNCHANGED <<cfgVars, obsVars, extVars, pc, mode, isAsync, stage, raise_on_failure,
                   payload, heap, refs, ctx, callerCtx, roles, results, pre_results,
                   post_results, funcCalls, funcResult, resolverCalls, evalLog,
                   auditEvents, perfEvents, outcome, returned, report, raised>>

\* one iteration: rule.validate_roles(roles) raises RBACError, which the
\* `except Exception` handler of the loop turns into GuardError
RuleDenied ==
    /\ InLoop
    /\ ~validate_roles(CurrentRule, roles)
    /\ validated' = Append(validated, ValidatedEntry(CurrentRule))
    /\ Raise(ReRaise(RBACError(CurrentRule)))
    /\ UNCHANGED <<cfgVars, obsVars, extVars, mode, isAsync, stage, raise_on_failure, payload, heap, refs,
                   ctx, callerCtx, roles, idx, results, pre_results, post_results,
                   funcCalls, funcResult, resolverCalls, evalLog, auditEvents,
                   perfEvents, returned, report>>

\* the iteration as it would be if the handler swallowed the fault: it is
\* recorded as a failing result and the loop goes on
RuleFaultsSwallowed ==
    /\ InLoop
    /\ validate_roles(CurrentRule, roles)
    /\ Evaluation.raises
    /\ validated' = Append(validated, ValidatedEntry(CurrentRule))
    /\ evalLog' = Append(evalLog, EvalEntry(CurrentRule, "raised"))
    /\ results' = Append(results, Evaluation.result)
    /\ idx' = idx + 1
    /\ UNCHANGED <<cfgVars, obsVars, extVars, pc, mode, isAsync, stage, raise_on_failure,
                   payload, heap, refs, ctx, callerCtx, roles, pre_results, post_results,
                   funcCalls, funcResult, resolverCalls, auditEvents, perfEvents,
                   outcome, returned, report, raised>>

\* one iteration: roles are fine, the rule body raises, the handler turns
\* the fault into GuardError
RuleFaults ==
    /\ InLoop
    /\ validate_roles(CurrentRule, roles)
    /\ Evaluation.raises
    /\ validated' = Append(validated, ValidatedEntry(CurrentRule))
    /\ evalLog' = Append(evalLog, EvalEntry(CurrentRule, "raised"))
    /\ Raise(ReRaise(RuleFault))
    /\ UNCHANGED <<cfgVars, obsVars, extVars, mode, isAsync, stage, raise_on_failure, payload, heap, refs,
                   ctx, callerCtx, roles, idx, results, pre_results, post_results,
                   funcCalls, funcResult, resolverCalls, auditEvents,
                   perfEvents, returned, report>>

\* the sink dispatch as it would be if it came after the fail-fast decision:
\* a result that aborts the call reaches no sink
RecordedUnlessAborting(result) ==
    /\ validated' = Append(validated, ValidatedEntry(CurrentRule))
    /\ evalLog' = Append(evalLog, EvalEntry(CurrentRule,
                                            IF result.passed THEN "passed" ELSE "failed"))
    /\ results' = Append(results, result)
    /\ IF ShouldAbort(result, raise_on_failure)
       THEN UNCHANGED <<auditEvents, perfEvents>>
       ELSE /\ auditEvents' = Append(auditEvents, AuditEvent(result, heap[ctx]))
            /\ perfEvents' = Append(perfEvents, [result |-> result, context |-> ctx])

\* the sink dispatch as it would be if the performance sink were handed the
\* results in one batch after the last rule of the stage
RecordedBatchingPerformance(result) ==
    /\ validated' = Append(validated, ValidatedEntry(CurrentRule))
    /\ evalLog' = Append(evalLog, EvalEntry(CurrentRule,
                                            IF result.passed THEN "passed" ELSE "failed"))
    /\ results' = Append(results, result)
    /\ auditEvents' = Append(auditEvents, AuditEvent(result, heap[ctx]))
    /\ perfEvents' = IF idx = Len(rules_for_stage(stage))
                     THEN perfEvents \o [k \in DOMAIN results' |->
                                            [result |-> results'[k], context |-> ctx]]
                     ELSE perfEvents

\* the part of an iteration shared by every rule that returns a result:
\* execute, append, _after_rule (audit sink, then performance sink)
Recorded(result) ==
    /\ validated' = Append(validated, ValidatedEntry(CurrentRule))
    /\ evalLog' = Append(evalLog, EvalEntry(CurrentRule,
                                            IF result.passed THEN "passed" ELSE "failed"))
    /\ results' = Append(results, result)
    /\ auditEvents' = Append(auditEvents, AuditEvent(result, heap[ctx]))
    /\ perfEvents' = Append(perfEvents, [result |-> result, context |-> ctx])

\* the iteration as it would be if the roles were resolved inside the loop,
\* once per rule
RuleContinuesResolving ==
    /\ InLoop
    /\ validate_roles(CurrentRule, roles)
    /\ ~Evaluation.raises
    /\ \E latency_ms \in Latencies :
         LET result == execute_rule(Evaluation.result, latency_ms) IN
           /\ ~ShouldAbort(result, raise_on_failure)
           /\ Recorded(result)
    /\ idx' = idx + 1
    /\ IF rbac_resolver
       THEN /\ \E R \in ResolverOutputs : roles' = R
            /\ resolverCalls' = resolverCalls + 1
       ELSE UNCHANGED <<roles, resolverCalls>>
    /\ UNCHANGED <<cfgVars, obsVars, extVars, pc, mode, isAsync, stage, raise_on_failure, payload,
                   heap, refs, ctx, callerCtx, pre_results, post_results,
                   funcCalls, funcResult, outcome, returned,
                   report, raised>>

\* one iteration: the rule returns a result and the loop goes on
RuleContinues ==
    /\ InLoop
    /\ validate_roles(CurrentRule, roles)
    /\ ~Evaluation.raises
    /\ \E latency_ms \in Latencies :
         LET result == execute_rule(Evaluation.result, latency_ms) IN
           /\ ~ShouldAbort(result, raise_on_failure)
           /\ Recorded(result)
    /\ idx' = idx + 1
    /\ UNCHANGED <<cfgVars, obsVars, extVars, pc, mode, isAsync, stage, raise_on_failure, payload,
                   heap, refs, ctx, callerCtx, roles, pre_results, post_results,
                   funcCalls, funcResult, resolverCalls, outcome, returned,
                   report, raised>>

\* one iteration: the rule returns a failing result under raise_on_failure;
\* GuardViolation is raised inside the try block and therefore reaches the
\* same `except Exception` handler
RuleViolation ==
    /\ InLoop
    /\ validate_roles(CurrentRule, roles)
    /\ ~Evaluation.raises
    /\ \E latency_ms \in Latencies :
         LET result == execute_rule(Evaluation.result, latency_ms) IN
           /\ ShouldAbort(result, raise_on_failure)
           /\ Recorded(result)
           /\ Raise(ReRaise(GuardViolation(CurrentRule, stage, result, ctx)))
    /\ UNCHANGED <<cfgVars, obsVars, extVars, mode, isAsync, stage, raise_on_failure, payload, heap, refs,
                   ctx, callerCtx, roles, idx, pre_results, post_results,
                   funcCalls, funcResult, resolverCalls, returned, report>>

\* the loop left one rule early
StageReturnsEarly == pc = "rules" /\ idx >= Len(rules_for_stage(stage))

\* the loop as it would be if it looked for one more rule than there is
StageReturnsLate == pc = "rules" /\ idx = Len(rules_for_stage(stage)) + 2

\* the loop is exhausted: `return results`
StageReturns == pc = "rules" /\ idx = Len(rules_for_stage(stage)) + 1

\* sync_wrapper / async_wrapper after the pre stage returned
PreStageComplete ==
    /\ StageReturns
    /\ mode = "protect"
    /\ stage = "pre"
    /\ pc' = "func"
    /\ UNCHANGED <<cfgVars, obsVars, extVars, mode, isAsync, stage, raise_on_failure, payload, heap, refs,
                   ctx, callerCtx, roles, idx, results, pre_results, post_results,
                   funcCalls, funcResult, resolverCalls, validated, evalLog,
                   auditEvents, perfEvents, outcome, returned, report, raised>>

\* result = func(*args, **kwargs); context_with_output = context.with_output(result);
\* the post stage is entered with context_with_output.output
CallFunc ==
    /\ pc = "func"
    /\ \E r \in Payloads :
         /\ funcResult' = r
         /\ heap' = Append(heap, with_output(heap[ctx], r))
         /\ refs' = Append(refs, with_output_refs(refs[ctx], ctx, Len(heap) + 1))
         /\ EnterStage("post", heap'[Len(heap')].output, Len(heap'), TRUE)
    /\ funcCalls' = funcCalls + 1
    /\ UNCHANGED <<cfgVars, obsVars, extVars, mode, isAsync, callerCtx, roles, idx, results,
                   pre_results, post_results, resolverCalls, validated, evalLog,
                   auditEvents, perfEvents, outcome, returned, report, raised>>

\* the wrapper as it would be if it called a raising callable once more
FuncRaisesRetrying ==
    /\ pc = "func"
    /\ funcCalls' = funcCalls + 1
    /\ UNCHANGED <<cfgVars, obsVars, extVars, pc, mode, isAsync, stage, raise_on_failure,
                   payload, heap, refs, ctx, callerCtx, roles, idx, results,
                   pre_results, post_results, funcResult, resolverCalls, validated,
                   evalLog, auditEvents, perfEvents, outcome, returned, report, raised>>

\* the wrapper as it would be if it wrapped the callable's exception the
\* way the stage runner wraps a rule's
FuncRaisesWrapped ==
    /\ pc = "func"
    /\ funcCalls' = funcCalls + 1
    /\ Raise(ReRaise(FuncFault))
    /\ UNCHANGED <<cfgVars, obsVars, extVars, mode, isAsync, stage, raise_on_failure,
                   payload, heap, refs, ctx, callerCtx, roles, idx, results,
                   pre_results, post_results, funcResult, resolverCalls, validated,
                   evalLog, auditEvents, perfEvents, returned, report>>

\* func(*args, **kwargs) raises: nothing in the wrapper catches it
FuncRaises ==
    /\ pc = "func"
    /\ funcCalls' = funcCalls + 1
    /\ Raise(FuncFault)
    /\ UNCHANGED <<cfgVars, obsVars, extVars, mode, isAsync, stage, raise_on_failure, payload, heap, refs,
                   ctx, callerCtx, roles, idx, results, pre_results, post_results,
                   funcResult, resolverCalls, validated, evalLog, auditEvents,
                   perfEvents, returned, report>>

\* sync_wrapper / async_wrapper after the post stage returned: `return result`
ProtectReturns ==
    /\ StageReturns
    /\ mode = "protect"
    /\ stage = "post"
    /\ returned' = funcResult
    /\ outcome' = "returned"
    /\ pc' = "done"
    /\ UNCHANGED <<cfgVars, obsVars, extVars, mode, isAsync, stage, raise_on_failure, payload, heap, refs,
                   ctx, callerCtx, roles, idx, results, pre_results, post_results,
                   funcCalls, funcResult, resolverCalls, validated, evalLog,
                   auditEvents, perfEvents, report, raised>>

\* check / check_async after the stage returned:
\* `return GuardReport(context=context, pre_results=..., post_results=...)`
CheckReturns ==
    /\ StageReturns
    /\ mode = "check"
    /\ pre_results' = IF stage = "pre" THEN results ELSE <<>>
    /\ post_results' = IF stage = "pre" THEN <<>> ELSE results
    /\ report' = GuardReport(ctx, pre_results', post_results')
    /\ outcome' = "returned"
    /\ pc' = "done"
    /\ UNCHANGED <<cfgVars, obsVars, extVars, mode, isAsync, stage, raise_on_failure, payload, heap, refs,
                   ctx, callerCtx, roles, idx, results, funcCalls, funcResult,
                   resolverCalls, validated, evalLog, auditEvents, perfEvents,
                   returned, raised>>

Next ==
    \/ \E a \in BOOLEAN, args \in Payloads : Protect(a, args)
    \/ \E a \in BOOLEAN, p \in Payloads, stg \in Stages, supplied \in BOOLEAN :
         Check(a, p, stg, supplied)
    \/ ResolveRoles
    \/ RuleDenied
    \/ RuleFaults
    \/ RuleContinues
    \/ RuleViolation
    \/ PreStageComplete
    \/ CallFunc
    \/ FuncRaises
    \/ ProtectReturns
    \/ CheckReturns

Spec == Init /\ [][Next]_vars

\* One guarded call whose collaborators all terminate: the resolver, every
\* rule body, every sink call and the wrapped callable return or raise, so
\* whichever step the call is at is eventually taken.
SpecLive == Init /\ [][Next]_vars /\ WF_vars(Next)

(* ----------------------------- a second check -------------------------- *)
\* what the caller keeps of a finished check call
Finished ==
    [outcome |-> outcome, report |-> report, raised |-> raised, roles |-> roles,
     evaluated |-> evalLog,
     \* report.context as the caller reads it when the call returns
     context |-> IF report.context = 0 THEN DefaultContext ELSE heap[report.context],
     validated |-> validated, auditEvents |-> auditEvents, perfEvents |-> perfEvents,
     funcCalls |-> funcCalls, funcResult |-> funcResult, returned |-> returned]

\* the caller repeats its check / check_async call on the same Guard: same
\* payload, same stage, same context argument.  A supplied context is the
\* object of the first call, as that call left it; without one a new default
\* context is made.
CheckAgain ==
    /\ pc = "done"
    /\ mode = "check"
    /\ first = NoFirst
    /\ first' = Finished
    /\ IF callerCtx # 0
       THEN IF stage = "pre"
            THEN /\ heap' = [heap EXCEPT ![callerCtx].inputs = payload]
                 /\ UNCHANGED refs
                 /\ ctx' = callerCtx
            ELSE /\ heap' = Append(heap, with_output(heap[callerCtx], payload))
                 /\ refs' = Append(refs, with_output_refs(refs[callerCtx], callerCtx,
                                                          Len(heap) + 1))
                 /\ ctx' = Len(heap')
       ELSE IF stage = "pre"
            THEN /\ heap' = Append(heap, [DefaultContext EXCEPT !.inputs = payload])
                 /\ refs' = Append(refs, FreshRefs(Len(heap) + 1))
                 /\ ctx' = Len(heap')
            ELSE /\ heap' = heap \o <<DefaultContext, with_output(DefaultContext, payload)>>
                 /\ refs' = refs \o <<FreshRefs(Len(heap) + 1),
                                       with_output_refs(FreshRefs(Len(heap) + 1),
                                                        Len(heap) + 1, Len(heap) + 2)>>
                 /\ ctx' = Len(heap')
    /\ pc' = "resolve"
    /\ outcome' = "none"
    /\ raised' = NoExc
    /\ report' = NoReport
    /\ pre_results' = <<>>
    /\ post_results' = <<>>
    /\ idx' = 0
    /\ roles' = {}
    /\ resolverCalls' = 0
    /\ validated' = <<>>
    /\ evalLog' = <<>>
    /\ auditEvents' = <<>>
    /\ perfEvents' = <<>>
    /\ UNCHANGED <<cfgVars, extVars, seen, mode, isAsync, stage, raise_on_failure, payload,
                   callerCtx, results, funcCalls, funcResult, returned>>

NextTwice ==
    \/ Next
    \/ CheckAgain

\* a guarded call, and a check call repeated once
SpecTwice == Init /\ [][NextTwice]_vars

\* After check returned a Report, the caller calls check / check_async once
\* more on the same Guard, with any payload and stage, and passes the same
\* context object again: the pre branch stores the payload in that object
\* (`context.inputs = payload`), the post branch derives a new context.
CheckLater(a, p, stg) ==
    /\ pc = "done"
    /\ mode = "check"
    /\ outcome = "returned"
    /\ callerCtx # 0
    /\ first = NoFirst
    /\ first' = Finished
    /\ isAsync' = a
    /\ IF stg = "pre"
       THEN /\ heap' = [heap EXCEPT ![callerCtx].inputs = p]
            /\ UNCHANGED refs
            /\ EnterStage("pre", p, callerCtx, FALSE)
       ELSE /\ heap' = Append(heap, with_output(heap[callerCtx], p))
            /\ refs' = Append(refs, with_output_refs(refs[callerCtx], callerCtx,
                                                     Len(heap) + 1))
            /\ EnterStage("post", p, Len(heap'), FALSE)
    /\ outcome' = "none"
    /\ raised' = NoExc
    /\ report' = NoReport
    /\ pre_results' = <<>>
    /\ post_results' = <<>>
    /\ idx' = 0
    /\ roles' = {}
    /\ resolverCalls' = 0
    /\ validated' = <<>>
    /\ evalLog' = <<>>
    /\ auditEvents' = <<>>
    /\ perfEvents' = <<>>
    /\ UNCHANGED <<cfgVars, extVars, seen, mode, callerCtx, results, funcCalls,
                   funcResult, returned>>

NextLater ==
    \/ Next
    \/ \E a \in BOOLEAN, p \in Payloads, stg \in Stages : CheckLater(a, p, stg)

\* a guarded call, and a later check call that is passed the same context
SpecLater == Init /\ [][NextLater]_vars

\* After a call made through sync_wrapper or check, the caller makes the
\* same call through the other dispatch path: async_wrapper around a
\* coroutine function with the same arguments, or check_async with the same
\* payload, stage and context argument.
CallAgainAsync ==
    /\ pc = "done"
    /\ ~isAsync
    /\ first = NoFirst
    /\ first' = Finished
    /\ isAsync' = TRUE
    /\ IF mode = "protect"
       THEN /\ heap' = Append(heap, build_context(heap[1].inputs))
            /\ refs' = Append(refs, FreshRefs(Len(heap) + 1))
            /\ EnterStage("pre", heap'[Len(heap')].inputs, Len(heap'), TRUE)
       ELSE /\ IF callerCtx # 0
               THEN IF stage = "pre"
                    THEN /\ heap' = [heap EXCEPT ![callerCtx].inputs = payload]
                         /\ UNCHANGED refs
                         /\ ctx' = callerCtx
                    ELSE /\ heap' = Append(heap, with_output(heap[callerCtx], payload))
                         /\ refs' = Append(refs, with_output_refs(refs[callerCtx], callerCtx,
                                                                  Len(heap) + 1))
                         /\ ctx' = Len(heap')
               ELSE IF stage = "pre"
                    THEN /\ heap' = Append(heap, [DefaultContext EXCEPT !.inputs = payload])
                         /\ refs' = Append(refs, FreshRefs(Len(heap) + 1))
                         /\ ctx' = Len(heap')
                    ELSE /\ heap' = heap \o <<DefaultContext,
                                               with_output(DefaultContext, payload)>>
                         /\ refs' = refs \o <<FreshRefs(Len(heap) + 1),
                                               with_output_refs(FreshRefs(Len(heap) + 1),
                                                                Len(heap) + 1, Len(heap) + 2)>>
                         /\ ctx' = Len(heap')
            /\ pc' = "resolve"
            /\ UNCHANGED <<stage, payload, raise_on_failure>>
    /\ outcome' = "none"
    /\ raised' = NoExc
    /\ report' = NoReport
    /\ returned' = None
    /\ funcCalls' = 0
    /\ funcResult' = None
    /\ pre_results' = <<>>
    /\ post_results' = <<>>
    /\ idx' = 0
    /\ roles' = {}
    /\ resolverCalls' = 0
    /\ validated' = <<>>
    /\ evalLog' = <<>>
    /\ auditEvents' = <<>>
    /\ perfEvents' = <<>>
    /\ UNCHANGED <<cfgVars, extVars, seen, mode, callerCtx, results>>

NextPaths ==
    \/ Next
    \/ CallAgainAsync

\* a call on the synchronous path, then the same call on the asynchronous one
SpecPaths == Init /\ [][NextPaths]_vars

(* ----------------------------- construction --------------------------- *)
\* the stages test of BaseRule.__init__ as it would be if it only caught None
rule_stages_ok_none(stages) == TRUE

\* BaseRule.__init__: `if not stages: raise GuardConfigurationError`
rule_stages_ok(stages) == stages # {}

\* the rules test of Guard.__init__ as it would be if it only caught None
guard_rules_ok_none(rs) == TRUE

\* Guard.__init__: `if not rules: raise GuardConfigurationError`
guard_rules_ok(rs) == rs # <<>>

\* the arguments a caller may give BaseRule.__init__: those of RuleConfigs
\* and an empty stage tuple
RuleArgs == RuleConfigs(0) \cup { BaseRule(0, {}, {}, TRUE, "pass") }

\* nothing constructed yet: the caller's rule list is empty
InitNew ==
    /\ pc = "new"
    /\ rules = <<>>
    /\ rbac_resolver = FALSE
    /\ NoCall
    /\ other = NoFrame

\* the caller constructs a rule (BaseRule.__init__) and puts it on the list
\* that will be handed to Guard(...); with no stage the constructor raises
NewRule(stages, required_roles, enabled, behaviour) ==
    /\ pc = "new"
    /\ Len(rules) < NumRules
    /\ IF rule_stages_ok(stages)
       THEN /\ rules' = Append(rules, BaseRule(Len(rules) + 1, stages, required_roles,
                                               enabled, behaviour))
            /\ UNCHANGED <<pc, outcome, raised>>
       ELSE /\ Raise(GuardConfigurationError("no_stages"))
            /\ UNCHANGED rules
    /\ UNCHANGED <<rbac_resolver, obsVars, extVars, mode, isAsync, stage, raise_on_failure,
                   payload, heap, refs, ctx, callerCtx, roles, idx, results, pre_results,
                   post_results, funcCalls, funcResult, resolverCalls, validated,
                   evalLog, auditEvents, perfEvents, returned, report>>

\* Guard.__init__ on the caller's list: raises on an empty list, otherwise
\* the Guard exists and can be called
NewGuard(resolver) ==
    /\ pc = "new"
    /\ IF guard_rules_ok(rules)
       THEN /\ rbac_resolver' = resolver
            /\ pc' = "idle"
            /\ UNCHANGED <<outcome, raised>>
       ELSE /\ Raise(GuardConfigurationError("no_rules"))
            /\ UNCHANGED rbac_resolver
    /\ UNCHANGED <<rules, obsVars, extVars, mode, isAsync, stage, raise_on_failure,
                   payload, heap, refs, ctx, callerCtx, roles, idx, results, pre_results,
                   post_results, funcCalls, funcResult, resolverCalls, validated,
                   evalLog, auditEvents, perfEvents, returned, report>>

NextNew ==
    \/ \E c \in RuleArgs : NewRule(c.stages, c.required_roles, c.enabled, c.behaviour)
    \/ \E resolver \in BOOLEAN : NewGuard(resolver)
    \/ Next

\* construction followed by one guarded call
SpecNew == InitNew /\ [][NextNew]_vars

(* ------------------------------- reports ------------------------------- *)
\* the result lists of length at most MaxResults for one stage
ResultLists(stg) ==
    UNION { [1..n -> { RuleResult(r, p, stg, "high", IF p THEN "empty" ELSE "matches") :
                         r \in 1..NumRules, p \in BOOLEAN }] : n \in 0..MaxResults }

\* a caller holds a GuardReport(context, pre_results, post_results) with
\* arbitrary result lists and has not read it yet
InitReport ==
    /\ pc = "reported"
    /\ report \in { GuardReport(1, pre, post) :
                      pre \in ResultLists("pre"), post \in ResultLists("post") }
    /\ heap = <<DefaultContext>>
    /\ refs = <<FreshRefs(1)>>
    /\ rules = <<>>
    /\ rbac_resolver = FALSE
    /\ mode = "none"
    /\ isAsync = FALSE
    /\ stage = "none"
    /\ raise_on_failure = FALSE
    /\ payload = None
    /\ ctx = 0
    /\ callerCtx = 0
    /\ roles = {}
    /\ idx = 0
    /\ results = <<>>
    /\ pre_results = <<>>
    /\ post_results = <<>>
    /\ funcCalls = 0
    /\ funcResult = None
    /\ resolverCalls = 0
    /\ validated = <<>>
    /\ evalLog = <<>>
    /\ auditEvents = <<>>
    /\ perfEvents = <<>>
    /\ outcome = "none"
    /\ returned = None
    /\ raised = NoExc
    /\ first = NoFirst
    /\ seen = Unseen
    /\ mutation = NoMutation
    /\ NoLib
    /\ other = NoFrame

\* the caller reads report.passed and report.failures
InspectReport ==
    /\ pc = "reported"
    /\ seen' = [read |-> TRUE, passed |-> ReportPassed(report),
                failures |-> ReportFailures(report)]
    /\ pc' = "inspected"
    /\ UNCHANGED <<cfgVars, extVars, first, mode, isAsync, stage, raise_on_failure, payload,
                   heap, refs, ctx, callerCtx, roles, idx, results, pre_results,
                   post_results, funcCalls, funcResult, resolverCalls, validated,
                   evalLog, auditEvents, perfEvents, outcome, returned, report,
                   raised>>

\* the derived properties of every GuardReport
SpecReport == InitReport /\ [][InspectReport]_vars

(* ------------------------- contexts after a call ----------------------- *)
\* the fields of a context that hold mutable objects
MutableFields == {"inputs", "metadata", "tags"}

\* the content of the object after one in-place change (an item stored in a
\* dict, an element appended to a list)
Changed(f, old) ==
    CASE f = "metadata" -> old \cup {<<"added", "x">>}
      [] f = "tags" -> Append(old, "added")
      [] OTHER -> "changed"

\* After the call, a holder of context c (the caller of check through its
\* own context or through report.context, a sink through the context it was
\* handed, a handler through the context of the violation) changes the
\* object field f refers to in place.  Every context whose field refers to
\* that same object shows the change.  None has no content to change.
MutateThrough(c, f) ==
    /\ pc = "done"
    /\ mutation = NoMutation
    /\ f = "inputs" => heap[c].inputs # None
    /\ heap' = [k \in DOMAIN heap |->
                  IF refs[k][f] = refs[c][f]
                  THEN [heap[k] EXCEPT ![f] = Changed(f, @)]
                  ELSE heap[k]]
    /\ mutation' = [ctx |-> c, field |-> f, before |-> heap]
    /\ UNCHANGED <<cfgVars, obsVars, other, libVars, pc, mode, isAsync, stage, raise_on_failure,
                   payload, refs, ctx, callerCtx, roles, idx, results, pre_results,
                   post_results, funcCalls, funcResult, resolverCalls, validated,
                   evalLog, auditEvents, perfEvents, outcome, returned, report,
                   raised>>

NextAlias ==
    \/ Next
    \/ \E c \in DOMAIN heap, f \in MutableFields : MutateThrough(c, f)

\* a guarded call, and one in-place change through a context it left behind
SpecAlias == Init /\ [][NextAlias]_vars

(* ----------------------------- failing sinks --------------------------- *)
\* one iteration: the rule returns a result, it is appended, and
\* audit_logger.log_event raises inside _after_rule; the call is made inside
\* the try block, so the `except Exception` handler of the loop takes it
AuditSinkRaises ==
    /\ InLoop
    /\ validate_roles(CurrentRule, roles)
    /\ ~Evaluation.raises
    /\ \E latency_ms \in Latencies :
         LET result == execute_rule(Evaluation.result, latency_ms) IN
           /\ validated' = Append(validated, ValidatedEntry(CurrentRule))
           /\ evalLog' = Append(evalLog, EvalEntry(CurrentRule,
                                   IF result.passed THEN "passed" ELSE "failed"))
           /\ results' = Append(results, result)
    /\ Raise(ReRaise(SinkFault))
    /\ UNCHANGED <<cfgVars, obsVars, extVars, mode, isAsync, stage, raise_on_failure,
                   payload, heap, refs, ctx, callerCtx, roles, idx, pre_results,
                   post_results, funcCalls, funcResult, resolverCalls, auditEvents,
                   perfEvents, returned, report>>

\* one iteration: the audit sink took the event and performance_monitor.record
\* raises, still inside the try block
PerformanceSinkRaises ==
    /\ InLoop
    /\ validate_roles(CurrentRule, roles)
    /\ ~Evaluation.raises
    /\ \E latency_ms \in Latencies :
         LET result == execute_rule(Evaluation.result, latency_ms) IN
           /\ validated' = Append(validated, ValidatedEntry(CurrentRule))
           /\ evalLog' = Append(evalLog, EvalEntry(CurrentRule,
                                   IF result.passed THEN "passed" ELSE "failed"))
           /\ results' = Append(results, result)
           /\ auditEvents' = Append(auditEvents, AuditEvent(result, heap[ctx]))
    /\ Raise(ReRaise(SinkFault))
    /\ UNCHANGED <<cfgVars, obsVars, extVars, mode, isAsync, stage, raise_on_failure,
                   payload, heap, refs, ctx, callerCtx, roles, idx, pre_results,
                   post_results, funcCalls, funcResult, resolverCalls, perfEvents,
                   returned, report>>

NextSinks ==
    \/ Next
    \/ AuditSinkRaises
    \/ PerformanceSinkRaises

\* a guarded call on a Guard whose sinks may raise
SpecSinks == Init /\ [][NextSinks]_vars

(* --------------------------- failing resolver -------------------------- *)
\* whatever the rbac_resolver raised
ResolverFault ==
    Exc("ResolverFault", [kind |-> "fault", rule |-> 0, stage |-> "none"],
        <<>>, 0, "none")

\* the start of a stage run as it would be if _resolve_roles were called
\* inside the try block of the loop
ResolverRaisesInsideTry ==
    /\ pc = "resolve"
    /\ rbac_resolver
    /\ results' = <<>>
    /\ resolverCalls' = resolverCalls + 1
    /\ Raise(ReRaise(ResolverFault))
    /\ UNCHANGED <<cfgVars, obsVars, extVars, mode, isAsync, stage, raise_on_failure,
                   payload, heap, refs, ctx, callerCtx, roles, idx, pre_results,
                   post_results, funcCalls, funcResult, validated, evalLog,
                   auditEvents, perfEvents, returned, report>>

\* results = []; roles = list(self._resolve_roles(context)) where the
\* resolver raises: the statement stands before the loop and its try block,
\* and neither the stage runner nor the wrapper / check catches anything
ResolverRaises ==
    /\ pc = "resolve"
    /\ rbac_resolver
    /\ results' = <<>>
    /\ resolverCalls' = resolverCalls + 1
    /\ Raise(ResolverFault)
    /\ UNCHANGED <<cfgVars, obsVars, extVars, mode, isAsync, stage, raise_on_failure,
                   payload, heap, refs, ctx, callerCtx, roles, idx, pre_results,
                   post_results, funcCalls, funcResult, validated, evalLog,
                   auditEvents, perfEvents, returned, report>>

NextResolver ==
    \/ Next
    \/ ResolverRaises

\* a guarded call on a Guard whose rbac_resolver may raise
SpecResolver == Init /\ [][NextResolver]_vars

(* --------------------------- two calls at a time ----------------------- *)
\* the locals of the running call (wrapper / check / stage runner frames)
\* and what was observed of it
Frame ==
    [pc |-> pc, mode |-> mode, isAsync |-> isAsync, stage |-> stage,
     raise_on_failure |-> raise_on_failure, payload |-> payload, ctx |-> ctx,
     callerCtx |-> callerCtx, roles |-> roles, idx |-> idx, results |-> results,
     pre_results |-> pre_results, post_results |-> post_results,
     funcCalls |-> funcCalls, funcResult |-> funcResult,
     resolverCalls |-> resolverCalls, validated |-> validated, evalLog |-> evalLog,
     auditEvents |-> auditEvents, perfEvents |-> perfEvents, outcome |-> outcome,
     returned |-> returned, report |-> report, raised |-> raised]

\* the switch as it would be if `results` were kept on the Guard instead of
\* being a local of the stage runner: the resumed call goes on with the list
\* the suspended one was filling
SwitchSharingResults ==
    /\ pc # "idle"
    /\ other.pc \notin {"absent", "done"}
    /\ other' = Frame
    /\ pc' = other.pc
    /\ mode' = other.mode
    /\ isAsync' = other.isAsync
    /\ stage' = other.stage
    /\ raise_on_failure' = other.raise_on_failure
    /\ payload' = other.payload
    /\ ctx' = other.ctx
    /\ callerCtx' = other.callerCtx
    /\ roles' = other.roles
    /\ idx' = other.idx
    /\ UNCHANGED results
    /\ pre_results' = other.pre_results
    /\ post_results' = other.post_results
    /\ funcCalls' = other.funcCalls
    /\ funcResult' = other.funcResult
    /\ resolverCalls' = other.resolverCalls
    /\ validated' = other.validated
    /\ evalLog' = other.evalLog
    /\ auditEvents' = other.auditEvents
    /\ perfEvents' = other.perfEvents
    /\ outcome' = other.outcome
    /\ returned' = other.returned
    /\ report' = other.report
    /\ raised' = other.raised
    /\ UNCHANGED <<cfgVars, obsVars, mutation, libVars, heap, refs>>

\* The running coroutine is suspended (awaiting a rule's evaluate_async or
\* the wrapped callable) or has ended, and the event loop runs the other
\* call: the locals change places, the Guard and the objects on the heap
\* stay as they are.
Switch ==
    /\ pc # "idle"
    /\ other.pc \notin {"absent", "done"}
    /\ other' = Frame
    /\ pc' = other.pc
    /\ mode' = other.mode
    /\ isAsync' = other.isAsync
    /\ stage' = other.stage
    /\ raise_on_failure' = other.raise_on_failure
    /\ payload' = other.payload
    /\ ctx' = other.ctx
    /\ callerCtx' = other.callerCtx
    /\ roles' = other.roles
    /\ idx' = other.idx
    /\ results' = other.results
    /\ pre_results' = other.pre_results
    /\ post_results' = other.post_results
    /\ funcCalls' = other.funcCalls
    /\ funcResult' = other.funcResult
    /\ resolverCalls' = other.resolverCalls
    /\ validated' = other.validated
    /\ evalLog' = other.evalLog
    /\ auditEvents' = other.auditEvents
    /\ perfEvents' = other.perfEvents
    /\ outcome' = other.outcome
    /\ returned' = other.returned
    /\ report' = other.report
    /\ raised' = other.raised
    /\ UNCHANGED <<cfgVars, obsVars, mutation, libVars, heap, refs>>

\* a Guard with ConcRules rules and two callers that have not called yet
InitConc ==
    /\ rules \in { r \in [1..ConcRules -> UNION { RuleConfigs(i) : i \in 1..ConcRules }] :
                     \A i \in 1..ConcRules : r[i].name = i }
    /\ rbac_resolver \in BOOLEAN
    /\ pc = "idle"
    /\ NoCall
    /\ other = IdleFrame

\* what the two callers send: the call that starts first a clean payload,
\* the call that starts second an offending one
OwnPayload == IF other.pc = "idle" THEN "clean" ELSE "pii"

\* two calls through async_wrapper / check_async on one event loop; a caller
\* of check_async passes a context of its own
NextConc ==
    \/ Protect(TRUE, OwnPayload)
    \/ \E stg \in Stages : Check(TRUE, OwnPayload, stg, TRUE)
    \/ ResolveRoles
    \/ RuleDenied
    \/ RuleFaults
    \/ RuleContinues
    \/ RuleViolation
    \/ PreStageComplete
    \/ CallFunc
    \/ FuncRaises
    \/ ProtectReturns
    \/ CheckReturns
    \/ Switch

SpecConc == InitConc /\ [][NextConc]_vars

(* ------------------- rules constructed on their own -------------------- *)
\* longest `rules` list handed to guardrails.guard.Guard
MaxValidators == 2

\* PIIRule.__init__: match_limit: int = 20
match_limit == 20

\* field names a schema requires and a payload carries
Fields == {"message", "channel"}

\* schema descriptors a caller may hand over: a pydantic model class, a model
\* instance, a mapping from field names to annotations, or anything else
Schemas ==
    { [kind |-> k, fields |-> f] :
        k \in {"class", "instance", "mapping"}, f \in {{"message"}, Fields} }
    \cup { [kind |-> "unsupported", fields |-> {}] }

\* the isinstance chain of _model_from_schema (rules/schema.py and
\* schema_validator.py alike): a BaseModel subclass, a BaseModel instance or
\* a mapping; anything else reaches the final raise
schema_supported(s) == s.kind \in {"class", "instance", "mapping"}

\* what _model_from_schema returns for a supported descriptor: the class
\* itself, the instance's class or create_model(...) over the mapping's
\* keys; a model is the set of fields it requires
model_from_schema(s) == [fields |-> s.fields]

\* model.model_validate(payload): every required field is present
model_validate(model, fields) == model.fields \subseteq fields

\* an exception of the modules around the engine; kind stands for its text
LibError(cls, kind) ==
    Exc(cls, [kind |-> kind, rule |-> 0, stage |-> "none"], <<>>, 0, "none")

\* the entity names of DEFAULT_PATTERNS (rules/pii.py)
DEFAULT_PATTERNS == {"email", "phone", "ssn", "credit_card", "ipv4"}

\* the `patterns` argument of PIIRule: None or a mapping with these keys
PatternArgs ==
    { [none |-> TRUE, keys |-> {}] }
    \cup { [none |-> FALSE, keys |-> k] : k \in SUBSET {"email", "badge"} }

\* truth value of the `patterns` argument: None and an empty mapping are false
Truthy(patterns) == ~patterns.none /\ patterns.keys # {}

\* the snippets a text may hold, and the `allowlist` arguments
Snippets == {"a@b.com", "B-17"}
Allowlists == {{}, {"B-17"}}

\* str.lower
Lower(t) == IF t = "B-17" THEN "b-17" ELSE t

\* pattern.findall(fragment) is non-empty for this snippet: the email
\* pattern finds the address, a caller's badge pattern the badge number
Finds(entity, t) ==
    \/ entity = "email" /\ t = "a@b.com"
    \/ entity = "badge" /\ t = "B-17"

\* PIIRule.evaluate: per entity the matches that are not allowlisted, at most
\* match_limit of them; passed = not matches
pii_evaluate(rule, text, stg) ==
    LET filtered(e) == { t \in text : Finds(e, t) /\ Lower(t) \notin rule.allowlist }
        kept(e) == IF Cardinality(filtered(e)) <= rule.match_limit
                   THEN filtered(e)
                   ELSE CHOOSE k \in SUBSET filtered(e) : Cardinality(k) = rule.match_limit
        matches == { e \in rule.patterns : filtered(e) # {} }
    IN  RuleResult("PIIRule", matches = {}, stg, "critical",
                   [matches |-> { <<e, kept(e)>> : e \in matches }])

\* SchemaRule.evaluate: passed iff model_validate succeeds; the validated
\* dump is reported when strict
schema_evaluate(rule, fields, stg) ==
    IF model_validate(rule.model, fields)
    THEN RuleResult("SchemaRule", TRUE, stg, "high",
                    IF rule.strict THEN [validated |-> rule.model.fields]
                                   ELSE [validated |-> {}])
    ELSE RuleResult("SchemaRule", FALSE, stg, "high",
                    [errors |-> rule.model.fields \ fields])

\* the constructor raised: its caller holds the exception and no object
Rejected(exc) ==
    /\ thrown' = exc
    /\ UNCHANGED <<built, ruleResult, schema, validators>>

\* nothing was constructed outside the engine yet
NothingBuilt == bpc = "new" /\ vpc = "new" /\ wpc = "new" /\ pc = "new"

\* SchemaRule(schema, stages=..., strict=...): BaseRule.__init__ first, then
\* _model_from_schema
NewSchemaRule(s, stages, strict) ==
    /\ NothingBuilt
    /\ given' = [cls |-> "SchemaRule", schema |-> s, stages |-> stages, strict |-> strict]
    /\ IF ~rule_stages_ok(stages)
       THEN /\ Rejected(GuardConfigurationError("no_stages"))
            /\ bpc' = "rejected"
       ELSE IF ~schema_supported(s)
       THEN /\ Rejected(GuardConfigurationError("unsupported_schema"))
            /\ bpc' = "rejected"
       ELSE /\ built' = [cls |-> "SchemaRule", stages |-> stages,
                         model |-> model_from_schema(s), strict |-> strict]
            /\ bpc' = "built"
            /\ UNCHANGED <<thrown, ruleResult, schema, validators>>
    /\ UNCHANGED <<vpc, vstage, vpayload, vidx, vmode, vfuncCalls>>
    /\ UNCHANGED <<engineVars, sdkVars>>

\* PIIRule(stages=..., patterns=..., allowlist=...): BaseRule.__init__, then
\* `self.patterns = patterns or DEFAULT_PATTERNS`, then the emptiness test
NewPIIRule(stages, patterns, allowlist) ==
    /\ NothingBuilt
    /\ given' = [cls |-> "PIIRule", stages |-> stages, patterns |-> patterns,
                 allowlist |-> allowlist]
    /\ LET self_patterns == IF Truthy(patterns) THEN patterns.keys ELSE DEFAULT_PATTERNS
       IN  IF ~rule_stages_ok(stages)
           THEN /\ Rejected(GuardConfigurationError("no_stages"))
                /\ bpc' = "rejected"
           ELSE IF self_patterns = {}
           THEN /\ Rejected(GuardConfigurationError("no_patterns"))
                /\ bpc' = "rejected"
           ELSE /\ built' = [cls |-> "PIIRule", stages |-> stages,
                             patterns |-> self_patterns,
                             allowlist |-> { Lower(t) : t \in allowlist },
                             match_limit |-> match_limit]
                /\ bpc' = "built"
                /\ UNCHANGED <<thrown, ruleResult, schema, validators>>
    /\ UNCHANGED <<vpc, vstage, vpayload, vidx, vmode, vfuncCalls>>
    /\ UNCHANGED <<engineVars, sdkVars>>

\* the caller evaluates the rule it built: rule.evaluate(payload, context, stage)
EvaluateBuilt(stg) ==
    /\ bpc = "built"
    /\ \/ /\ built.cls = "SchemaRule"
          /\ \E fields \in SUBSET Fields :
                ruleResult' = schema_evaluate(built, fields, stg)
       \/ /\ built.cls = "PIIRule"
          /\ \E text \in SUBSET Snippets :
                ruleResult' = pii_evaluate(built, text, stg)
    /\ bpc' = "evaluated"
    /\ UNCHANGED <<given, thrown, built, legacyVars>>
    /\ UNCHANGED <<engineVars, sdkVars>>

(* --------------------- guardrails/guard.py: Guard ---------------------- *)
\* what a caller may put on the `rules` list: the two registered names, a
\* name that is not registered, callables that accept, that raise
\* ValidationError or that raise something else, and a number
RuleItems == {"no_pii", "schema_check", "unknown", "accept", "reject", "crash", "number"}

\* isinstance(rule, str)
IsName(item) == item \in {"no_pii", "schema_check", "unknown"}

\* getattr(self, f"_rule_{rule}", None) is not None: the methods _rule_no_pii
\* and _rule_schema_check
Registered(item) == item \in {"no_pii", "schema_check"}

\* callable(rule)
IsCallable(item) == item \in {"accept", "reject", "crash"}

\* Guard._resolve_rule: the exception it raises for the item, or NoExc
resolve_rule(item) ==
    IF IsName(item)
    THEN IF Registered(item) THEN NoExc ELSE LibError("ValueError", "unknown_rule")
    ELSE IF IsCallable(item) THEN NoExc ELSE LibError("TypeError", "bad_rule")

\* the `rules` arguments: lists of at most MaxValidators items
RuleLists == UNION { [1..n -> RuleItems] : n \in 0..MaxValidators }

\* payloads of the decorator Guard: the fields a mapping carries and
\* whether detect_pii finds a snippet in it
LegacyPayloads == { [fields |-> f, pii |-> b] : f \in {{"message"}, Fields}, b \in BOOLEAN }

\* {"args": args, "kwargs": kwargs}, the pre-stage payload of a wrapped call
CallPayloads == { [fields |-> {"args", "kwargs"}, pii |-> b] : b \in BOOLEAN }

\* guardrails.guard.ValidationError(text, rule=...)
ValidationError(rule) ==
    Exc("ValidationError", [kind |-> "validation", rule |-> rule, stage |-> "none"],
        <<>>, 0, "none")

\* validate_with_schema(data, schema): None for no schema, otherwise
\* _model_from_schema (TypeError for an unsupported descriptor) and
\* model_validate, whose pydantic error is re-raised
validate_with_schema(data, s) ==
    IF s = NoSchema THEN NoExc
    ELSE IF ~schema_supported(s) THEN LibError("TypeError", "unsupported_schema")
    ELSE IF model_validate(model_from_schema(s), data.fields) THEN NoExc
    ELSE LibError("PydanticValidationError", "invalid")

\* one validator of Guard._validators applied to (payload, stage): the
\* exception it raises, or NoExc.  _rule_no_pii and _rule_schema_check return
\* at once outside the post stage; _rule_schema_check converts the pydantic
\* error only; a callable is called with the payload in every stage.
run_validator(v, p, stg, s) ==
    CASE v = "no_pii" ->
            IF stg # "post" THEN NoExc
            ELSE IF p.pii THEN ValidationError("no_pii") ELSE NoExc
      [] v = "schema_check" ->
            IF stg # "post" THEN NoExc
            ELSE LET exc == validate_with_schema(p, s)
                 IN  IF exc.cls = "PydanticValidationError"
                     THEN ValidationError("schema_check")
                     ELSE exc
      [] v = "reject" -> ValidationError("callable")
      [] v = "crash" -> LibError("RuleFault", "fault")
      [] OTHER -> NoExc

\* guardrails.guard.Guard(rules=..., schema=...): stores the schema as given
\* and resolves the rules in order; the first item that does not resolve
\* raises
NewLegacyGuard(rs, s) ==
    /\ NothingBuilt
    /\ given' = [cls |-> "Guard", rules |-> rs, schema |-> s]
    /\ IF \E i \in 1..Len(rs) : resolve_rule(rs[i]) # NoExc
       THEN LET i == CHOOSE j \in 1..Len(rs) :
                        /\ resolve_rule(rs[j]) # NoExc
                        /\ \A k \in 1..(j - 1) : resolve_rule(rs[k]) = NoExc
            IN  /\ Rejected(resolve_rule(rs[i]))
                /\ vpc' = "rejected"
       ELSE /\ schema' = s
            /\ validators' = rs
            /\ vpc' = "built"
            /\ UNCHANGED thrown
    /\ UNCHANGED <<built, ruleResult, bpc, vstage, vpayload, vidx, vmode, vfuncCalls>>
    /\ UNCHANGED <<engineVars, sdkVars>>

\* the start of Guard._run_validators(payload=p, stage=stg)
RunValidators(p, stg) ==
    /\ vpayload' = p
    /\ vstage' = stg
    /\ vidx' = 1

\* a call of the function wrapped by the Guard: pre-validation of
\* {"args": args, "kwargs": kwargs}
LegacyWrapped(p) ==
    /\ vpc = "built"
    /\ vmode' = "wrapped"
    /\ vpc' = "validating"
    /\ RunValidators(p, "pre")
    /\ UNCHANGED <<given, thrown, ruleVars, schema, validators, vfuncCalls>>
    /\ UNCHANGED <<engineVars, sdkVars>>

\* Guard.validate(payload, stage=stg)
LegacyValidate(p, stg) ==
    /\ vpc = "built"
    /\ vmode' = "validate"
    /\ vpc' = "validating"
    /\ RunValidators(p, stg)
    /\ UNCHANGED <<given, thrown, ruleVars, schema, validators, vfuncCalls>>
    /\ UNCHANGED <<engineVars, sdkVars>>

\* one iteration of _run_validators whose validator returns
ValidatorPasses ==
    /\ vpc = "validating"
    /\ vidx <= Len(validators)
    /\ run_validator(validators[vidx], vpayload, vstage, schema) = NoExc
    /\ vidx' = vidx + 1
    /\ UNCHANGED <<given, thrown, ruleVars, schema, validators, vpc, vstage, vpayload,
                   vmode, vfuncCalls>>
    /\ UNCHANGED <<engineVars, sdkVars>>

\* one iteration of _run_validators whose validator raises: ValidationError
\* is logged and re-raised, anything else is not caught at all
ValidatorRaises ==
    /\ vpc = "validating"
    /\ vidx <= Len(validators)
    /\ run_validator(validators[vidx], vpayload, vstage, schema) # NoExc
    /\ thrown' = run_validator(validators[vidx], vpayload, vstage, schema)
    /\ vpc' = "done"
    /\ UNCHANGED <<given, ruleVars, schema, validators, vstage, vpayload, vidx, vmode,
                   vfuncCalls>>
    /\ UNCHANGED <<engineVars, sdkVars>>

\* wrapped: pre-validation is over, func returns r and post-validation starts
LegacyFunc(r) ==
    /\ vpc = "validating"
    /\ vmode = "wrapped"
    /\ vstage = "pre"
    /\ vidx > Len(validators)
    /\ vfuncCalls' = vfuncCalls + 1
    /\ RunValidators(r, "post")
    /\ UNCHANGED <<given, thrown, ruleVars, schema, validators, vpc, vmode>>
    /\ UNCHANGED <<engineVars, sdkVars>>

\* wrapped: func raises; nothing catches it
LegacyFuncRaises ==
    /\ vpc = "validating"
    /\ vmode = "wrapped"
    /\ vstage = "pre"
    /\ vidx > Len(validators)
    /\ vfuncCalls' = vfuncCalls + 1
    /\ thrown' = FuncFault
    /\ vpc' = "done"
    /\ UNCHANGED <<given, ruleVars, schema, validators, vstage, vpayload, vidx, vmode>>
    /\ UNCHANGED <<engineVars, sdkVars>>

\* _run_validators ran every validator: validate returns None, wrapped
\* returns func's result after the post stage
LegacyReturns ==
    /\ vpc = "validating"
    /\ vidx > Len(validators)
    /\ vmode = "wrapped" => vstage = "post"
    /\ vpc' = "done"
    /\ UNCHANGED <<given, thrown, ruleVars, schema, validators, vstage, vpayload, vidx,
                   vmode, vfuncCalls>>
    /\ UNCHANGED <<engineVars, sdkVars>>

\* one object of the surrounding modules is constructed and used: a
\* SchemaRule or PIIRule evaluated directly, or a decorator Guard called
\* through its wrapper or through validate
NextConfig ==
    \/ \E s \in Schemas, stages \in StageChoices \cup {{}}, strict \in BOOLEAN :
          NewSchemaRule(s, stages, strict)
    \/ \E stages \in StageChoices \cup {{}}, patterns \in PatternArgs,
          allowlist \in Allowlists :
          NewPIIRule(stages, patterns, allowlist)
    \/ \E stg \in Stages : EvaluateBuilt(stg)
    \/ \E rs \in RuleLists, s \in Schemas \cup {NoSchema} : NewLegacyGuard(rs, s)
    \/ \E p \in CallPayloads : LegacyWrapped(p)
    \/ \E p \in LegacyPayloads, stg \in Stages : LegacyValidate(p, stg)
    \/ ValidatorPasses
    \/ ValidatorRaises
    \/ \E r \in LegacyPayloads : LegacyFunc(r)
    \/ LegacyFuncRaises
    \/ LegacyReturns

SpecConfig == InitNew /\ [][NextConfig]_vars

(* ------------------ safety_sdk: GuardChain and safe_llm ---------------- *)
\* number of guards in SafetyConfig.guards
NumGuards == 2

\* how a guard answers: always ALLOW; BLOCK or WARN on an offending text in
\* either direction (PIIDetectorGuard with action 'block' / 'warn'); BLOCK on
\* an offending prompt and ALLOW on every response (InjectionDetectorGuard,
\* RBACGuard); or its method raises (a detector whose pipeline fails)
GuardKinds == {"allow", "block", "warn", "input_block", "fault"}

\* a Guard object (guards/base.py): enabled = config.get('enabled', True)
SdkGuard(name, enabled, kind) == [name |-> name, enabled |-> enabled, kind |-> kind]

\* the guards a caller may put at position i; a guard that is disabled when
\* the chain is built is never consulted, so one kind stands for all
GuardConfigs(i) ==
    { SdkGuard(i, TRUE, k) : k \in GuardKinds } \cup { SdkGuard(i, FALSE, "allow") }

\* GuardResponse dataclass; confidence defaults to 1.0
GuardResponse(result, reason, confidence) ==
    [result |-> result, reason |-> reason, confidence |-> confidence]

Allow == GuardResponse("ALLOW", None, "1.0")

\* guard.check_input / guard.check_output of the bundled guards
\* (guards/validators.py): the method raises, or returns a GuardResponse
guard_check(g, m, t) ==
    CASE g.kind = "fault" -> [raises |-> TRUE, response |-> Allow]
      [] g.kind = "block" ->
            [raises |-> FALSE,
             response |-> IF t = "bad" THEN GuardResponse("BLOCK", "detected", "0.9")
                                       ELSE Allow]
      [] g.kind = "warn" ->
            [raises |-> FALSE,
             response |-> IF t = "bad" THEN GuardResponse("WARN", "detected", "0.9")
                                       ELSE Allow]
      [] g.kind = "input_block" ->
            [raises |-> FALSE,
             response |-> IF m = "check_input" /\ t = "bad"
                          THEN GuardResponse("BLOCK", "detected", "0.8")
                          ELSE Allow]
      [] OTHER -> [raises |-> FALSE, response |-> Allow]

\* the response the chain records for a guard whose method raised
FailedResponse(g) == GuardResponse("WARN", <<"failed", g.name>>, "0.0")

\* GuardChain.__init__: [g for g in guards if g.enabled], by position
chain_guards(gs) ==
    SelectSeq([i \in 1..Len(gs) |-> i], LAMBDA i : gs[i].enabled)

\* blocked_inputs / blocked_outputs of the wrapper
Blocked(rs) == SelectSeq(rs, LAMBDA r : r.result = "BLOCK")

\* SafetyException(message, guard_responses)
SafetyException(kind, rs) ==
    Exc("SafetyException", [kind |-> kind, rule |-> 0, stage |-> "none"], rs, 0, "none")

\* how the wrapper is called: messages=[..., {"content": c}], prompt=c, c as
\* first positional argument, or with nothing that holds a prompt
Calls ==
    { [shape |-> sh, content |-> c] :
        sh \in {"messages", "prompt", "positional"}, c \in {"clean", "bad"} }
    \cup { [shape |-> "empty", content |-> "none"] }

\* _extract_prompt: the content of the last message, kwargs['prompt'],
\* str(args[0]), or ""
extract_prompt(call) ==
    IF call.shape \in {"messages", "prompt", "positional"} THEN call.content ELSE ""

\* what llm_function may return: a dict with 'content', a string, or an
\* object whose str() raises
Responses ==
    { [kind |-> k, content |-> c] : k \in {"dict", "str"}, c \in {"clean", "bad"} }
    \cup { [kind |-> "unprintable", content |-> "none"] }

\* _extract_response_text raises: neither a dict with 'content' nor a string,
\* and str(response) fails
extract_raises(r) == r.kind = "unprintable"

\* _extract_response_text: response['content'] or the string itself
extract_response_text(r) == r.content

\* safe_llm(config)(llm_function) with config = SafetyConfig(guards=gs,
\* audit_enabled=audit, fail_open=fo): the decorator builds the GuardChain
Decorate(gs, audit, fo) ==
    /\ NothingBuilt
    /\ given' = [cls |-> "GuardChain", guards |-> gs]
    /\ config' = [guards |-> gs, audit_enabled |-> audit, fail_open |-> fo]
    /\ chain' = chain_guards(gs)
    /\ wpc' = "ready"
    /\ UNCHANGED <<wmode, method, wtext, gidx, responses, input_responses,
                   output_responses, consulted, llmCalls, response, wreturned>>
    /\ UNCHANGED <<engineVars, thrown, ruleVars, legacyVars>>

\* after the chain was built the owner of a guard flips its enabled flag
SetEnabled(i) ==
    /\ wpc = "ready"
    /\ config.guards = given.guards
    /\ i \in DOMAIN config.guards
    /\ config' = [config EXCEPT !.guards[i].enabled = ~@]
    /\ UNCHANGED <<chain, wpc, wmode, method, wtext, gidx, responses, input_responses,
                   output_responses, consulted, llmCalls, response, wreturned>>
    /\ UNCHANGED <<engineVars, given, thrown, ruleVars, legacyVars>>

\* the start of GuardChain.check_input / check_output on text t
EnterChain(m, t) ==
    /\ method' = m
    /\ wtext' = t
    /\ gidx' = 1
    /\ responses' = <<>>
    /\ wpc' = "chain"

\* wrapper(*args, **kwargs): the prompt is extracted and check_input starts
WrapperCall(call) ==
    /\ wpc = "ready"
    /\ wmode' = "wrapper"
    /\ EnterChain("check_input", extract_prompt(call))
    /\ UNCHANGED <<config, chain, input_responses, output_responses, consulted,
                   llmCalls, response, wreturned>>
    /\ UNCHANGED <<engineVars, given, thrown, ruleVars, legacyVars>>

\* a caller of its own calls guard_chain.check_input / check_output
DirectCheck(m, t) ==
    /\ wpc = "ready"
    /\ wmode' = "direct"
    /\ EnterChain(m, t)
    /\ UNCHANGED <<config, chain, input_responses, output_responses, consulted,
                   llmCalls, response, wreturned>>
    /\ UNCHANGED <<engineVars, given, thrown, ruleVars, legacyVars>>

\* the chain loop has a next guard
InChain == wpc = "chain" /\ gidx \in 1..Len(chain)

\* the guard at the head of the loop
CurrentGuard == config.guards[chain[gidx]]

\* what was asked of a guard, and how many responses the list held by then
ConsultedEntry == [guard |-> CurrentGuard.name, method |-> method, text |-> wtext,
                   nresponses |-> Len(responses)]

\* the iteration as it would be without the break after a BLOCK
GuardAnswersContinuing ==
    /\ InChain
    /\ LET r == guard_check(CurrentGuard, method, wtext) IN
         /\ ~r.raises
         /\ responses' = Append(responses, r.response)
         /\ gidx' = gidx + 1
    /\ consulted' = Append(consulted, ConsultedEntry)
    /\ UNCHANGED <<config, chain, wpc, wmode, method, wtext, input_responses,
                   output_responses, llmCalls, response, wreturned>>
    /\ UNCHANGED <<engineVars, given, thrown, ruleVars, legacyVars>>

\* one iteration of the chain loop: the guard answers, its response is
\* appended, and a BLOCK leaves the loop
GuardAnswers ==
    /\ InChain
    /\ LET r == guard_check(CurrentGuard, method, wtext) IN
         /\ ~r.raises
         /\ responses' = Append(responses, r.response)
         /\ gidx' = IF r.response.result = "BLOCK" THEN Len(chain) + 1 ELSE gidx + 1
    /\ consulted' = Append(consulted, ConsultedEntry)
    /\ UNCHANGED <<config, chain, wpc, wmode, method, wtext, input_responses,
                   output_responses, llmCalls, response, wreturned>>
    /\ UNCHANGED <<engineVars, given, thrown, ruleVars, legacyVars>>

\* the iteration as it would be if the handler left the loop after
\* recording the failure
GuardRaisesStopping ==
    /\ InChain
    /\ guard_check(CurrentGuard, method, wtext).raises
    /\ responses' = Append(responses, FailedResponse(CurrentGuard))
    /\ gidx' = Len(chain) + 1
    /\ consulted' = Append(consulted, ConsultedEntry)
    /\ UNCHANGED <<config, chain, wpc, wmode, method, wtext, input_responses,
                   output_responses, llmCalls, response, wreturned>>
    /\ UNCHANGED <<engineVars, given, thrown, ruleVars, legacyVars>>

\* one iteration of the chain loop: the guard's method raises, the handler
\* appends a WARN response with confidence 0.0 and the loop goes on
GuardRaises ==
    /\ InChain
    /\ guard_check(CurrentGuard, method, wtext).raises
    /\ responses' = Append(responses, FailedResponse(CurrentGuard))
    /\ gidx' = gidx + 1
    /\ consulted' = Append(consulted, ConsultedEntry)
    /\ UNCHANGED <<config, chain, wpc, wmode, method, wtext, input_responses,
                   output_responses, llmCalls, response, wreturned>>
    /\ UNCHANGED <<engineVars, given, thrown, ruleVars, legacyVars>>

\* the chain loop is over
ChainDone == wpc = "chain" /\ gidx > Len(chain)

\* check_input / check_output returns its list to the direct caller
DirectReturns ==
    /\ ChainDone
    /\ wmode = "direct"
    /\ wreturned' = [kind |-> "responses", value |-> responses]
    /\ wpc' = "done"
    /\ UNCHANGED <<config, chain, wmode, method, wtext, gidx, responses,
                   input_responses, output_responses, consulted, llmCalls, response>>
    /\ UNCHANGED <<engineVars, given, thrown, ruleVars, legacyVars>>

\* one invocation of llm_function: inside the try block or in its handler,
\* how it ended, and how many guard consultations had been made by then
LLMCall(guarded, ended, r) ==
    [guarded |-> guarded, ended |-> ended, value |-> r, nconsulted |-> Len(consulted)]

\* the handler as it would be if it called llm_function again whatever
\* fail_open says
HandleFaultAlwaysOpen(exc) ==
    /\ wpc' = "retry"
    /\ UNCHANGED thrown

\* the handlers around the LLM call: `except Exception as e`, which calls
\* llm_function again when fail_open and re-raises otherwise
HandleFault(exc) ==
    IF config.fail_open
    THEN /\ wpc' = "retry"
         /\ UNCHANGED thrown
    ELSE /\ wpc' = "done"
         /\ thrown' = exc

\* the wrapper as it would be if blocked inputs never stopped the call
InputCheckedAllowing ==
    /\ ChainDone
    /\ wmode = "wrapper"
    /\ method = "check_input"
    /\ input_responses' = responses
    /\ wpc' = "llm"
    /\ UNCHANGED <<config, chain, wmode, method, wtext, gidx, responses,
                   output_responses, consulted, llmCalls, response, wreturned>>
    /\ UNCHANGED <<engineVars, given, thrown, ruleVars, legacyVars>>

\* wrapper: check_input returned; a BLOCK among the responses raises
\* SafetyException unless fail_open
InputChecked ==
    /\ ChainDone
    /\ wmode = "wrapper"
    /\ method = "check_input"
    /\ input_responses' = responses
    /\ IF Blocked(responses) # <<>> /\ ~config.fail_open
       THEN /\ thrown' = SafetyException("request_blocked", responses)
            /\ wpc' = "done"
       ELSE /\ wpc' = "llm"
            /\ UNCHANGED thrown
    /\ UNCHANGED <<config, chain, wmode, method, wtext, gidx, responses,
                   output_responses, consulted, llmCalls, response, wreturned>>
    /\ UNCHANGED <<engineVars, given, ruleVars, legacyVars>>

\* wrapper: llm_function returns r, its text is extracted and check_output starts
LLMReturns(r) ==
    /\ wpc = "llm"
    /\ ~extract_raises(r)
    /\ llmCalls' = Append(llmCalls, LLMCall(TRUE, "returned", r))
    /\ response' = r
    /\ EnterChain("check_output", extract_response_text(r))
    /\ UNCHANGED <<config, chain, wmode, input_responses, output_responses, consulted,
                   wreturned>>
    /\ UNCHANGED <<engineVars, given, thrown, ruleVars, legacyVars>>

\* wrapper: llm_function raises inside the try block
LLMRaises ==
    /\ wpc = "llm"
    /\ llmCalls' = Append(llmCalls, LLMCall(TRUE, "raised", NoResponse))
    /\ HandleFault(FuncFault)
    /\ UNCHANGED <<config, chain, wmode, method, wtext, gidx, responses,
                   input_responses, output_responses, consulted, response, wreturned>>
    /\ UNCHANGED <<engineVars, given, ruleVars, legacyVars>>

\* wrapper: llm_function returns r and _extract_response_text raises
ExtractRaises(r) ==
    /\ wpc = "llm"
    /\ extract_raises(r)
    /\ llmCalls' = Append(llmCalls, LLMCall(TRUE, "returned", r))
    /\ response' = r
    /\ HandleFault(LibError("ExtractFault", "fault"))
    /\ UNCHANGED <<config, chain, wmode, method, wtext, gidx, responses,
                   input_responses, output_responses, consulted, wreturned>>
    /\ UNCHANGED <<engineVars, given, ruleVars, legacyVars>>

\* wrapper: check_output returned; a BLOCK among the responses raises
\* SafetyException unless fail_open (`except SafetyException: raise`),
\* otherwise the audit line is printed and the response is returned
OutputChecked ==
    /\ ChainDone
    /\ wmode = "wrapper"
    /\ method = "check_output"
    /\ output_responses' = responses
    /\ IF Blocked(responses) # <<>> /\ ~config.fail_open
       THEN /\ thrown' = SafetyException("response_blocked", responses)
            /\ UNCHANGED wreturned
       ELSE /\ wreturned' = [kind |-> "response", value |-> response]
            /\ UNCHANGED thrown
    /\ wpc' = "done"
    /\ UNCHANGED <<config, chain, wmode, method, wtext, gidx, responses,
                   input_responses, consulted, llmCalls, response>>
    /\ UNCHANGED <<engineVars, given, ruleVars, legacyVars>>

\* wrapper: check_output returned without a SafetyException and the print
\* of the audit line raises (a closed stdout)
AuditPrintRaises ==
    /\ ChainDone
    /\ wmode = "wrapper"
    /\ method = "check_output"
    /\ ~(Blocked(responses) # <<>> /\ ~config.fail_open)
    /\ config.audit_enabled
    /\ output_responses' = responses
    /\ HandleFault(LibError("PrintFault", "fault"))
    /\ UNCHANGED <<config, chain, wmode, method, wtext, gidx, responses,
                   input_responses, consulted, llmCalls, response, wreturned>>
    /\ UNCHANGED <<engineVars, given, ruleVars, legacyVars>>

\* fail_open: `return llm_function(*args, **kwargs)` in the handler returns r
RetryReturns(r) ==
    /\ wpc = "retry"
    /\ llmCalls' = Append(llmCalls, LLMCall(FALSE, "returned", r))
    /\ wreturned' = [kind |-> "response", value |-> r]
    /\ wpc' = "done"
    /\ UNCHANGED <<config, chain, wmode, method, wtext, gidx, responses,
                   input_responses, output_responses, consulted, response>>
    /\ UNCHANGED <<engineVars, given, thrown, ruleVars, legacyVars>>

\* fail_open: the second call of llm_function raises, out of the handler
RetryRaises ==
    /\ wpc = "retry"
    /\ llmCalls' = Append(llmCalls, LLMCall(FALSE, "raised", NoResponse))
    /\ thrown' = FuncFault
    /\ wpc' = "done"
    /\ UNCHANGED <<config, chain, wmode, method, wtext, gidx, responses,
                   input_responses, output_responses, consulted, response, wreturned>>
    /\ UNCHANGED <<engineVars, given, ruleVars, legacyVars>>

\* a function is decorated with safe_llm and called once, or the chain's
\* methods are called directly
NextChain ==
    \/ \E gs \in { g \in [1..NumGuards -> UNION { GuardConfigs(i) : i \in 1..NumGuards }] :
                     \A i \in 1..NumGuards : g[i].name = i },
          audit \in BOOLEAN, fo \in BOOLEAN : Decorate(gs, audit, fo)
    \/ \E i \in 1..NumGuards : SetEnabled(i)
    \/ \E call \in Calls : WrapperCall(call)
    \/ \E m \in {"check_input", "check_output"}, t \in {"clean", "bad"} : DirectCheck(m, t)
    \/ GuardAnswers
    \/ GuardRaises
    \/ DirectReturns
    \/ InputChecked
    \/ \E r \in Responses : LLMReturns(r)
    \/ LLMRaises
    \/ \E r \in Responses : ExtractRaises(r)
    \/ OutputChecked
    \/ AuditPrintRaises
    \/ \E r \in Responses : RetryReturns(r)
    \/ RetryRaises

SpecChain == InitNew /\ [][NextChain]_vars

(* ======================================================================= *)
(* Properties                                                              *)
(* ======================================================================= *)
\* the rule body of `name` was invoked in stage `stg` during this call
Evaluated(name, stg) ==
    \E i \in DOMAIN evalLog : evalLog[i].rule = name /\ evalLog[i].stage = stg

\* ... and returned a passing result
EvaluatedPassing(name, stg) ==
    \E i \in DOMAIN evalLog :
        evalLog[i].rule = name /\ evalLog[i].stage = stg /\ evalLog[i].ended = "passed"

\* the number of invocations of the rule body of `name` in stage `stg`
EvalCount(name, stg) ==
    Cardinality({ i \in DOMAIN evalLog : evalLog[i].rule = name /\ evalLog[i].stage = stg })

\* a sink received an event for rule `name` in stage `stg`
SinkEvent(name, stg) ==
    \/ \E i \in DOMAIN auditEvents :
          auditEvents[i].rule = name /\ auditEvents[i].stage = stg
    \/ \E i \in DOMAIN perfEvents :
          perfEvents[i].result.rule = name /\ perfEvents[i].result.stage = stg

\* some evaluated rule returned a failing result
SomeFailed == \E i \in DOMAIN evalLog : evalLog[i].ended = "failed"

\* the role validation recorded in entry v ended in a denial
DeniedEntry(v) == ~(rules[v.rule].required_roles \subseteq v.roles)

\* some rule was denied by RBAC
SomeDenied == \E i \in DOMAIN validated : DeniedEntry(validated[i])

\* some rule body raised
SomeFaulted == \E i \in DOMAIN evalLog : evalLog[i].ended = "raised"

\* the results of the stage that check ran, as the Report carries them
StageResults(r, stg) == IF stg = "pre" THEN r.pre_results ELSE r.post_results
OtherResults(r, stg) == IF stg = "pre" THEN r.post_results ELSE r.pre_results

(* ------------------------------- C1 ------------------------------------ *)
\* C1 (as claimed): when a Protect-mode call ends because an evaluated rule
\* returned a failing result, the error that reaches the caller is a
\* GuardViolation whose results hold exactly that failing result and whose
\* context is the context of the failing stage.
C1_ViolationReachesCaller ==
    (mode = "protect" /\ pc = "done" /\ SomeFailed) =>
        /\ outcome = "raised"
        /\ raised.cls = "GuardViolation"
        /\ raised.results = <<results[Len(results)]>>
        /\ raised.context = ctx

(* ------------------------------- C2 ------------------------------------ *)
\* C2: in a Protect-mode stage run, once the rule at position k of the
\* selected rules has returned a failing result, no rule at a later position
\* of that stage is evaluated and no sink receives an event for it.
C2_FailFastSkipsRest ==
    mode = "protect" =>
        \A stg \in Stages :
            \A k \in 1..Len(rules_for_stage(stg)) :
                (\E i \in DOMAIN evalLog :
                    /\ evalLog[i].rule = rules_for_stage(stg)[k].name
                    /\ evalLog[i].stage = stg
                    /\ evalLog[i].ended = "failed")
                => \A j \in (k+1)..Len(rules_for_stage(stg)) :
                      /\ ~Evaluated(rules_for_stage(stg)[j].name, stg)
                      /\ ~SinkEvent(rules_for_stage(stg)[j].name, stg)

\* a Protect call ended on a failing rule that had selected rules after it
C2_Witness ==
    /\ mode = "protect"
    /\ pc = "done"
    /\ SomeFailed
    /\ idx < Len(rules_for_stage(stage))
    /\ rules_for_stage(stage)[idx + 1].required_roles \subseteq roles

(* ------------------------------- C3 ------------------------------------ *)
\* C3: in Protect mode the wrapped callable has been invoked only if every
\* selected pre-stage rule was evaluated and passed; a call whose pre stage
\* ended in a failure, a denial or a fault never invokes it.
C3_FuncOnlyAfterPrePassed ==
    mode = "protect" =>
        /\ (funcCalls > 0 \/ pc = "func") =>
              \A k \in 1..Len(rules_for_stage("pre")) :
                  EvaluatedPassing(rules_for_stage("pre")[k].name, "pre")
        /\ (\E i \in DOMAIN evalLog :
               evalLog[i].stage = "pre" /\ evalLog[i].ended # "passed") => funcCalls = 0
        /\ (\E i \in DOMAIN validated :
               validated[i].stage = "pre" /\ DeniedEntry(validated[i])) => funcCalls = 0

\* the callable ran after a pre stage in which every configured rule took part
C3_Witness ==
    /\ mode = "protect"
    /\ funcCalls = 1
    /\ Len(rules_for_stage("pre")) = NumRules

(* ------------------------------- C4 ------------------------------------ *)
\* C4: in Protect mode every post-stage evaluation happens after the wrapped
\* callable returned, with its return value as payload and as the output of
\* the context; every pre-stage evaluation sees a context with output unset.
C4_PostSeesReturnValue ==
    mode = "protect" =>
        \A i \in DOMAIN evalLog :
            /\ evalLog[i].stage = "post" =>
                  /\ evalLog[i].funcCalls = 1
                  /\ evalLog[i].funcResult \in Payloads
                  /\ evalLog[i].payload = evalLog[i].funcResult
                  /\ evalLog[i].context.output = evalLog[i].funcResult
            /\ evalLog[i].stage = "pre" =>
                  /\ evalLog[i].funcCalls = 0
                  /\ evalLog[i].context.output = None

\* a post-stage rule was evaluated in a Protect call whose pre stage also ran a rule
C4_Witness ==
    /\ mode = "protect"
    /\ \E i, j \in DOMAIN evalLog :
          evalLog[i].stage = "pre" /\ evalLog[j].stage = "post"

(* ------------------------------- C5 ------------------------------------ *)
\* C5: a Protect-mode call returns a value only when every selected rule of
\* both stages was evaluated and passed, and that value is the callable's
\* return value; when an evaluated rule failed the caller gets an error and
\* no value.
C5_ReturnsOnlyWhenAllPassed ==
    mode = "protect" =>
        /\ outcome = "returned" =>
              /\ \A stg \in Stages :
                    \A k \in 1..Len(rules_for_stage(stg)) :
                        EvaluatedPassing(rules_for_stage(stg)[k].name, stg)
              /\ funcCalls = 1
              /\ returned = funcResult
              /\ returned \in Payloads
        /\ SomeFailed => outcome # "returned" /\ returned = None
        /\ (SomeFailed /\ pc = "done") => outcome = "raised"

\* a Protect call returned after rules ran in both stages
C5_Witness ==
    /\ mode = "protect"
    /\ outcome = "returned"
    /\ rules_for_stage("pre") # <<>>
    /\ rules_for_stage("post") # <<>>

(* ------------------------------- C6 ------------------------------------ *)
\* C6: in Check mode a failing result neither raises nor stops the stage:
\* unless a rule is role-denied or faults, the call returns a Report holding
\* one result per selected rule, in order, each rule evaluated exactly once,
\* and the Report is not passed and has failures when some rule failed.
C6_CheckCollectsAll ==
    (mode = "check" /\ pc = "done") =>
        /\ raised.cause # "GuardViolation"
        /\ (~SomeDenied /\ ~SomeFaulted) =>
              /\ outcome = "returned"
              /\ Len(StageResults(report, stage)) = Len(rules_for_stage(stage))
              /\ \A k \in 1..Len(rules_for_stage(stage)) :
                    /\ EvalCount(rules_for_stage(stage)[k].name, stage) = 1
                    /\ StageResults(report, stage)[k].rule = rules_for_stage(stage)[k].name
                    /\ StageResults(report, stage)[k].passed =
                          (evalLog[k].ended = "passed")
              /\ SomeFailed => (~ReportPassed(report) /\ ReportFailures(report) # <<>>)

\* a Check call went past a failing result and evaluated a later rule
C6_Witness ==
    /\ mode = "check"
    /\ pc = "done"
    /\ outcome = "returned"
    /\ \E i, j \in DOMAIN evalLog : i < j /\ evalLog[i].ended = "failed"

(* ------------------------------- C7 ------------------------------------ *)
\* C7 (as claimed, for rule sets whose bodies never raise): Check returns a
\* Report with one result per enabled rule supporting the requested stage
\* and no result for the other stage, also when rules require roles.
C7_CheckAlwaysReports ==
    (mode = "check" /\ pc = "done" /\ \A i \in 1..NumRules : rules[i].behaviour # "fault") =>
        /\ outcome = "returned"
        /\ Len(StageResults(report, stage)) = Len(rules_for_stage(stage))
        /\ OtherResults(report, stage) = <<>>

(* ------------------------------- C8 ------------------------------------ *)
\* C8 (as claimed, in Protect mode): at the end of a stage run every selected
\* rule has been evaluated iff its required roles are within the resolved
\* roles.
C8_EvaluatedIffRolesSatisfied ==
    (mode = "protect" /\ pc = "done" /\ raised.cls # "FuncFault") =>
        \A k \in 1..Len(rules_for_stage(stage)) :
            Evaluated(rules_for_stage(stage)[k].name, stage)
                <=> (rules_for_stage(stage)[k].required_roles \subseteq roles)

\* C8 (amended): every selected rule that a stage run reaches is evaluated
\* iff its required roles are within the roles resolved for that run, in
\* Protect and Check alike; a rule body is invoked only after its roles were
\* validated, so with unsatisfied roles it never runs.
C8_ReachedEvaluatedIffRolesSatisfied ==
    /\ \A i \in DOMAIN validated :
          Evaluated(validated[i].rule, validated[i].stage)
              <=> (rules[validated[i].rule].required_roles \subseteq validated[i].roles)
    /\ \A j \in DOMAIN evalLog :
          /\ rules[evalLog[j].rule].required_roles \subseteq evalLog[j].roles
          /\ \E i \in DOMAIN validated :
                /\ validated[i].rule = evalLog[j].rule
                /\ validated[i].stage = evalLog[j].stage
                /\ validated[i].roles = evalLog[j].roles

\* a rule with required roles was evaluated and another one was denied
C8_Witness ==
    /\ SomeDenied
    /\ \E j \in DOMAIN evalLog : rules[evalLog[j].rule].required_roles # {}

(* ------------------------------- C9 ------------------------------------ *)
\* C9 (as claimed): in Check mode a denial by RBAC does not make the call
\* raise; the Report holds a failing result for the denied rule.
C9_CheckReportsDenial ==
    (mode = "check" /\ pc = "done") =>
        \A i \in DOMAIN validated :
            DeniedEntry(validated[i]) =>
                /\ outcome = "returned"
                /\ \E k \in DOMAIN StageResults(report, stage) :
                      /\ StageResults(report, stage)[k].rule = validated[i].rule
                      /\ ~StageResults(report, stage)[k].passed

(* ------------------------------- C10 ----------------------------------- *)
\* C10 (as claimed): when a rule is denied by RBAC, the exception that
\* reaches the caller is of class RBACError.
C10_DenialRaisesRBACError ==
    (pc = "done" /\ SomeDenied /\ outcome = "raised") => raised.cls = "RBACError"

(* ------------------------------- C11 ----------------------------------- *)
\* C11: a Guard without an RBAC resolver runs every stage with the empty
\* role set and never calls a resolver; every rule with required roles that
\* a stage run reaches is denied and its body never runs, and every reached
\* rule without required roles is evaluated as usual.
C11_NoResolverDeniesGatedRules ==
    ~rbac_resolver =>
        /\ resolverCalls = 0
        /\ \A i \in DOMAIN validated :
              /\ validated[i].roles = {}
              /\ rules[validated[i].rule].required_roles # {} =>
                    /\ ~Evaluated(validated[i].rule, validated[i].stage)
                    /\ outcome = "raised"
                    /\ raised.cause = "RBACError"
              /\ rules[validated[i].rule].required_roles = {} =>
                    Evaluated(validated[i].rule, validated[i].stage)
        /\ \A j \in DOMAIN evalLog : rules[evalLog[j].rule].required_roles = {}

\* without a resolver, a rule without required roles ran and a gated one was denied
C11_Witness ==
    /\ ~rbac_resolver
    /\ SomeDenied
    /\ evalLog # <<>>

(* ------------------------------- C12 ----------------------------------- *)
\* the stage runs of this call whose role resolution has taken place
StageRunsResolved ==
    IF pc \in {"idle", "resolve"}
    THEN (IF mode = "protect" /\ stage = "post" THEN 1 ELSE 0)
    ELSE (IF mode = "protect" /\ stage = "post" THEN 2 ELSE 1)

\* C12: with a resolver configured, it is invoked exactly once per stage
\* run, before the first rule of the run is role-validated; every rule of
\* the run is validated against that one answer; a Protect call that
\* completes both stages has invoked it exactly twice.
C12_ResolverOncePerStage ==
    rbac_resolver =>
        /\ resolverCalls = StageRunsResolved
        /\ \A i \in DOMAIN validated :
              /\ validated[i].resolverCalls =
                    (IF mode = "protect" /\ validated[i].stage = "post" THEN 2 ELSE 1)
              /\ \A j \in DOMAIN validated :
                    validated[j].stage = validated[i].stage =>
                        validated[j].roles = validated[i].roles
        /\ (mode = "protect" /\ outcome = "returned") => resolverCalls = 2

\* a Protect call returned after a stage that validated two rules
C12_Witness ==
    /\ rbac_resolver
    /\ mode = "protect"
    /\ outcome = "returned"
    /\ \E i, j \in DOMAIN validated : i # j /\ validated[i].stage = validated[j].stage

(* ------------------------------- C13 ----------------------------------- *)
\* the evaluations of this call that returned a result
ResultCount ==
    Cardinality({ i \in DOMAIN evalLog : evalLog[i].ended # "raised" })

\* C13: each sink has received exactly one event per rule result computed in
\* this call, passing or failing, in the order of the evaluations; the
\* failing result that aborts a Protect call has reached both sinks too.
C13_OneEventPerResult ==
    /\ Len(auditEvents) = ResultCount
    /\ Len(perfEvents) = ResultCount
    /\ \A k \in 1..ResultCount :
          /\ auditEvents[k].rule = evalLog[k].rule
          /\ auditEvents[k].stage = evalLog[k].stage
          /\ auditEvents[k].passed = (evalLog[k].ended = "passed")
          /\ perfEvents[k].result.rule = evalLog[k].rule
          /\ perfEvents[k].result.stage = evalLog[k].stage
          /\ perfEvents[k].result.passed = (evalLog[k].ended = "passed")
    /\ (mode = "protect" /\ pc = "done" /\ SomeFailed) =>
          /\ ~auditEvents[Len(auditEvents)].passed
          /\ ~perfEvents[Len(perfEvents)].result.passed
          /\ auditEvents[Len(auditEvents)].rule = raised.message.rule

\* a Protect call was aborted by a failing result after a passing one
C13_Witness ==
    /\ mode = "protect"
    /\ pc = "done"
    /\ SomeFailed
    /\ Len(auditEvents) >= 2

(* ------------------------------- C14 ----------------------------------- *)
\* rule i of the configuration is enabled and its stage set contains stg
SelectedFor(i, stg) == rules[i].enabled /\ stg \in rules[i].stages

\* the (rule, stage) pairs of a log name selected rules only and, per stage,
\* in configuration order without a gap
OrderedPrefix(log) ==
    \A i \in DOMAIN log :
        /\ SelectedFor(log[i].rule, log[i].stage)
        /\ \A j \in DOMAIN log :
              (i < j /\ log[i].stage = log[j].stage) => log[i].rule < log[j].rule
        /\ \A r \in DOMAIN rules :
              (r < log[i].rule /\ SelectedFor(r, log[i].stage)) =>
                  \E j \in DOMAIN log :
                      j < i /\ log[j].rule = r /\ log[j].stage = log[i].stage

\* C14: per stage, the rules role-validated, the rules evaluated, the
\* results and the events of both sinks follow the configuration order of
\* the enabled rules supporting the stage, without a gap; a disabled rule or
\* a rule not supporting the stage appears in none of them.
C14_SelectedRulesInOrder ==
    /\ OrderedPrefix(validated)
    /\ OrderedPrefix(evalLog)
    /\ OrderedPrefix(results)
    /\ OrderedPrefix(auditEvents)
    /\ OrderedPrefix([k \in DOMAIN perfEvents |-> perfEvents[k].result])

\* a rule was evaluated although an earlier rule of the configuration was
\* disabled or did not support the stage
C14_Witness ==
    \E j \in DOMAIN evalLog :
        \E r \in DOMAIN rules :
            /\ r < evalLog[j].rule
            /\ ~SelectedFor(r, evalLog[j].stage)
            /\ Len(auditEvents) >= 1

(* ------------------------------- C15 ----------------------------------- *)
\* C15: constructing a Guard from an empty rule list ends in
\* GuardConfigurationError and leaves nothing that can be called; every
\* Guard that exists owns at least one rule.
C15_EmptyGuardRejected ==
    /\ (pc # "new" /\ rules = <<>>) =>
          /\ pc = "done"
          /\ outcome = "raised"
          /\ raised.cls = "GuardConfigurationError"
          /\ mode = "none"
    /\ (pc = "idle" \/ mode # "none") => Len(rules) >= 1

\* Guard(...) was called with an empty list
C15_Witness ==
    /\ rules = <<>>
    /\ raised.message.kind = "no_rules"

(* ------------------------------- C16 ----------------------------------- *)
\* C16: constructing a rule without a stage ends in GuardConfigurationError
\* and adds no rule; every rule that exists has at least one stage.
C16_EmptyStagesRejected ==
    /\ \A i \in DOMAIN rules : rules[i].stages # {} /\ rules[i].stages \subseteq Stages
    /\ raised.message.kind = "no_stages" =>
          /\ raised.cls = "GuardConfigurationError"
          /\ pc = "done"
          /\ mode = "none"

\* a rule was constructed without a stage, after a valid one
C16_Witness ==
    /\ raised.message.kind = "no_stages"
    /\ Len(rules) >= 1

(* ------------------------------- C17 ----------------------------------- *)
\* C17: for every Report, passed is the conjunction of the pass flags of all
\* pre and post results (true when there are none), failures is the failing
\* pre results followed by the failing post results, each in their order,
\* and passed holds iff failures is empty.
C17_ReportDerivedProperties ==
    seen.read =>
        /\ seen.passed =
              (/\ \A i \in DOMAIN report.pre_results : report.pre_results[i].passed
               /\ \A i \in DOMAIN report.post_results : report.post_results[i].passed)
        /\ seen.failures =
              SelectSeq(report.pre_results, LAMBDA x : ~x.passed)
                 \o SelectSeq(report.post_results, LAMBDA x : ~x.passed)
        /\ seen.passed <=> (seen.failures = <<>>)

\* a Report with a failing and a passing result in each stage was read
C17_Witness ==
    /\ seen.read
    /\ \E i, j \in DOMAIN report.pre_results :
          report.pre_results[i].passed /\ ~report.pre_results[j].passed
    /\ \E i, j \in DOMAIN report.post_results :
          report.post_results[i].passed /\ ~report.post_results[j].passed

\* a Report without any result was read
C17_WitnessEmpty ==
    /\ seen.read
    /\ report.pre_results = <<>>
    /\ report.post_results = <<>>

(* ------------------------------- C18 ----------------------------------- *)
\* a result list without the measured latencies
Content(rs) == [k \in DOMAIN rs |-> [rs[k] EXCEPT !.latency_ms = 0]]

\* C18: a check repeated on the same Guard with the same payload, stage and
\* context argument, the resolver answering as before, ends as the first
\* one did: the same kind of outcome, and when Reports are returned the same
\* passed value and the same failures (rules, order, pass flags, details).
C18_CheckIdempotent ==
    (first # NoFirst /\ pc = "done" /\ roles = first.roles) =>
        /\ outcome = first.outcome
        /\ raised = first.raised
        /\ outcome = "returned" =>
              /\ ReportPassed(report) = ReportPassed(first.report)
              /\ Content(ReportFailures(report)) = Content(ReportFailures(first.report))
              /\ Content(report.pre_results) = Content(first.report.pre_results)
              /\ Content(report.post_results) = Content(first.report.post_results)

\* two checks of an offending payload returned Reports with a failure and a
\* passing result each
C18_Witness ==
    /\ first # NoFirst
    /\ pc = "done"
    /\ outcome = "returned"
    /\ ReportFailures(report) # <<>>
    /\ Len(report.pre_results \o report.post_results) >= 2
    /\ callerCtx # 0

(* ------------------------------- C19 ----------------------------------- *)
\* C19: when a rule body raises, in Protect and in Check mode, the call ends
\* there with a GuardError caused by the fault: nothing is returned, the
\* faulting rule has no result and no sink event, and no later rule of the
\* stage is role-validated or evaluated.
C19_FaultStopsAndPropagates ==
    SomeFaulted =>
        /\ pc = "done"
        /\ outcome = "raised"
        /\ raised.cls = "GuardError"
        /\ raised.cause = "RuleFault"
        /\ returned = None
        /\ report = NoReport
        /\ evalLog[Len(evalLog)].ended = "raised"
        /\ evalLog[Len(evalLog)].stage = stage
        /\ \A i \in 1..(Len(evalLog) - 1) : evalLog[i].ended # "raised"
        /\ \A k \in DOMAIN results : results[k].rule # evalLog[Len(evalLog)].rule
        /\ ~SinkEvent(evalLog[Len(evalLog)].rule, stage)
        /\ validated[Len(validated)].rule = evalLog[Len(evalLog)].rule
        /\ \A r \in DOMAIN rules :
              r > evalLog[Len(evalLog)].rule =>
                  /\ ~Evaluated(r, stage)
                  /\ \A i \in DOMAIN validated :
                        ~(validated[i].rule = r /\ validated[i].stage = stage)

\* a Check call ended on a faulting rule that had a selected rule after it
C19_Witness ==
    /\ SomeFaulted
    /\ mode = "check"
    /\ idx < Len(rules_for_stage(stage))

\* a Protect call ended on a faulting rule that had a selected rule after it
C19_WitnessProtect ==
    /\ SomeFaulted
    /\ mode = "protect"
    /\ idx < Len(rules_for_stage(stage))

(* ------------------------------- C20 ----------------------------------- *)
\* C20 (as claimed): the error raised for a rule fault carries the identity
\* of the faulting rule and the stage in which it ran.
C20_FaultErrorNamesRuleAndStage ==
    (pc = "done" /\ SomeFaulted) =>
        /\ raised.message.rule = evalLog[Len(evalLog)].rule
        /\ raised.message.stage = evalLog[Len(evalLog)].stage

(* ------------------------------- C21 ----------------------------------- *)
\* C21 (as claimed): a context derived by with_output equals the context it
\* was derived from in inputs, metadata, user_id, session_id and tags, and
\* shares no mutable state with it: after an in-place change made through one
\* of the two (to inputs, metadata or tags) the other reads as before.
C21_DerivedContextIndependent ==
    \A d \in DOMAIN heap :
        refs[d].origin # 0 =>
            LET o == refs[d].origin IN
              /\ mutation = NoMutation =>
                    /\ heap[d].inputs = heap[o].inputs
                    /\ heap[d].metadata = heap[o].metadata
                    /\ heap[d].user_id = heap[o].user_id
                    /\ heap[d].session_id = heap[o].session_id
                    /\ heap[d].tags = heap[o].tags
              /\ mutation.ctx = d => heap[o] = mutation.before[o]
              /\ mutation.ctx = o => heap[d] = mutation.before[d]

(* ------------------------------- C22 ----------------------------------- *)
\* C22 (as claimed): once check has returned a Report r, nothing done on the
\* Guard later, a further check call for either stage with the same
\* caller-supplied context included, changes what r holds: r.context reads
\* at every later moment as it read when r was returned.  (r.pre_results and
\* r.post_results are the list made by `results = []` of that one stage run.)
C22_ReportUnchangedOnceReturned ==
    (first # NoFirst /\ first.outcome = "returned") =>
        heap[first.report.context] = first.context

(* ------------------------------- C23 ----------------------------------- *)
\* C23: every result appended to a stage's results, returned in a Report or
\* handed to a sink carries a latency the engine measured, whatever latency
\* the rule wrote into it; the audit event, the result given to the
\* performance sink and the result appended for the same evaluation carry
\* the same latency.
C23_LatencySetByEngine ==
    /\ \A k \in DOMAIN results : results[k].latency_ms \in Latencies
    /\ \A k \in DOMAIN report.pre_results : report.pre_results[k].latency_ms \in Latencies
    /\ \A k \in DOMAIN report.post_results : report.post_results[k].latency_ms \in Latencies
    /\ \A i \in DOMAIN auditEvents : auditEvents[i].latency_ms \in Latencies
    /\ \A i \in DOMAIN perfEvents : perfEvents[i].result.latency_ms \in Latencies
    /\ Len(auditEvents) = Len(perfEvents)
    /\ \A i \in DOMAIN auditEvents :
          auditEvents[i].latency_ms = perfEvents[i].result.latency_ms
    /\ pc \in {"rules", "func", "done"} =>
          /\ Len(results) <= Len(auditEvents)
          /\ \A k \in DOMAIN results :
                /\ perfEvents[Len(perfEvents) - Len(results) + k].result = results[k]
                /\ auditEvents[Len(auditEvents) - Len(results) + k].latency_ms
                      = results[k].latency_ms

\* a rule that wrote its own latency into its result was evaluated; the
\* result was appended and reached both sinks
C23_Witness ==
    /\ pc = "done"
    /\ \E k \in DOMAIN results :
          /\ evaluate(rules[results[k].rule], payload, stage).result.latency_ms = OwnLatency
          /\ results[k].latency_ms # OwnLatency
    /\ auditEvents # <<>>
    /\ perfEvents # <<>>

(* ------------------------------- C24 ----------------------------------- *)
\* what an evaluation log says about rules and order, whichever path ran it
EvalTrace(log) ==
    [k \in DOMAIN log |-> [rule |-> log[k].rule, stage |-> log[k].stage,
                           payload |-> log[k].payload, ended |-> log[k].ended]]

\* sink events without the measured latencies
Untimed(events) == [k \in DOMAIN events |-> [events[k] EXCEPT !.latency_ms = 0]]

\* the resolver and the wrapped callable behaved in the asynchronous call
\* as they had in the synchronous one, as far as both calls got
SameBehaviour ==
    /\ \A i \in DOMAIN validated, j \in DOMAIN first.validated :
          validated[i].stage = first.validated[j].stage =>
              validated[i].roles = first.validated[j].roles
    /\ (funcCalls = 1 /\ first.funcCalls = 1) =>
          /\ funcResult = first.funcResult
          /\ (raised.cls = "FuncFault") = (first.raised.cls = "FuncFault")

C24_WitnessProtect ==
    /\ first # NoFirst /\ isAsync /\ pc = "done" /\ SameBehaviour
    /\ mode = "protect"
    /\ outcome = "returned"
    /\ \E i, j \in DOMAIN evalLog : evalLog[i].stage = "pre" /\ evalLog[j].stage = "post"

(* ------------------------------- C25 ----------------------------------- *)
\* One stage run of a call that has the Guard to itself, computed in one go
\* from the selected rules rs, the payload, the stage, the resolved roles R
\* and raise_on_failure: how the run ends, the results appended and the
\* evaluations made, in order.
SoloStage(rs, p, stg, R, rof) ==
    LET run[i \in 1..(Len(rs) + 1)] ==
          IF i > Len(rs)
          THEN [ended |-> "returned", results |-> <<>>, trace |-> <<>>]
          ELSE IF ~validate_roles(rs[i], R)
          THEN [ended |-> "RBACError", results |-> <<>>, trace |-> <<>>]
          ELSE LET e == evaluate_async(rs[i], p, stg)
                   entry(ended) == [rule |-> rs[i].name, stage |-> stg,
                                    payload |-> p, ended |-> ended] IN
                 IF e.raises
                 THEN [ended |-> "RuleFault", results |-> <<>>,
                       trace |-> <<entry("raised")>>]
                 ELSE IF ShouldAbort(e.result, rof)
                 THEN [ended |-> "GuardViolation", results |-> <<e.result>>,
                       trace |-> <<entry("failed")>>]
                 ELSE [ended |-> run[i + 1].ended,
                       results |-> <<e.result>> \o run[i + 1].results,
                       trace |-> <<entry(IF e.result.passed THEN "passed" ELSE "failed")>>
                                    \o run[i + 1].trace]
    IN run[1]

\* the roles call F resolved for its run of stage stg ({} when the run
\* validated no rule, and so never looked at them)
RolesOf(F, stg) ==
    IF \E i \in DOMAIN F.validated : F.validated[i].stage = stg
    THEN F.validated[CHOOSE i \in DOMAIN F.validated : F.validated[i].stage = stg].roles
    ELSE {}

\* a finished check_async call F ended as it would have ended alone
CheckAsIfAlone(F) ==
    LET run == SoloStage(rules_for_stage(F.stage), F.payload, F.stage,
                         RolesOf(F, F.stage), FALSE)
        own == IF F.stage = "pre" THEN [CallerContext EXCEPT !.inputs = F.payload]
               ELSE with_output(CallerContext, F.payload) IN
      /\ EvalTrace(F.evalLog) = run.trace
      /\ Content(F.results) = Content(run.results)
      /\ \A k \in DOMAIN F.evalLog : F.evalLog[k].context = own
      /\ heap[F.ctx] = own
      /\ F.stage = "post" => heap[F.callerCtx] = CallerContext
      /\ IF run.ended = "returned"
         THEN /\ F.outcome = "returned"
              /\ F.report.context = F.ctx
              /\ Content(StageResults(F.report, F.stage)) = Content(run.results)
              /\ OtherResults(F.report, F.stage) = <<>>
         ELSE /\ F.outcome = "raised"
              /\ F.raised.cause = run.ended

\* a finished async_wrapper call F, made with args, ended as it would have
\* ended alone, given what the wrapped callable did
ProtectAsIfAlone(F, args) ==
    LET pre == SoloStage(rules_for_stage("pre"), args, "pre", RolesOf(F, "pre"), TRUE)
        post == SoloStage(rules_for_stage("post"), F.funcResult, "post",
                          RolesOf(F, "post"), TRUE) IN
      IF pre.ended # "returned"
      THEN /\ EvalTrace(F.evalLog) = pre.trace
           /\ Content(F.results) = Content(pre.results)
           /\ F.funcCalls = 0
           /\ F.outcome = "raised"
           /\ F.raised.cause = pre.ended
           /\ heap[F.ctx] = build_context(args)
      ELSE /\ F.funcCalls = 1
           /\ IF F.funcResult = None
              THEN /\ EvalTrace(F.evalLog) = pre.trace
                   /\ F.outcome = "raised"
                   /\ F.raised.cls = "FuncFault"
                   /\ heap[F.ctx] = build_context(args)
              ELSE /\ EvalTrace(F.evalLog) = pre.trace \o post.trace
                   /\ Content(F.results) = Content(post.results)
                   /\ heap[F.ctx] = with_output(build_context(args), F.funcResult)
                   /\ heap[refs[F.ctx].origin] = build_context(args)
                   /\ \A k \in DOMAIN F.evalLog :
                         F.evalLog[k].context = IF F.evalLog[k].stage = "pre"
                                                THEN build_context(args)
                                                ELSE heap[F.ctx]
                   /\ IF post.ended = "returned"
                      THEN F.outcome = "returned" /\ F.returned = F.funcResult
                      ELSE F.outcome = "raised" /\ F.raised.cause = post.ended

\* the context call F started with: the caller's, or the one _build_context made
RootCtx(F) ==
    IF F.callerCtx # 0 THEN F.callerCtx
    ELSE IF F.ctx # 0 /\ refs[F.ctx].origin # 0 THEN refs[F.ctx].origin
    ELSE F.ctx

\* what the caller of F sent: the call that started first made the first context
SentBy(F) == IF RootCtx(F) <= 1 THEN "clean" ELSE "pii"

\* call F, which sent payload p, has ended as it would have ended alone
AsIfAlone(F, p) ==
    F.pc = "done" =>
        IF F.mode = "check" THEN F.payload = p /\ CheckAsIfAlone(F)
        ELSE ProtectAsIfAlone(F, p)

\* C25: when two async_wrapper / check_async calls on one Guard with
\* stateless rules are interleaved at rule boundaries and at the wrapped
\* call, each call evaluates the rules, collects the results, keeps the
\* context and ends as it would have alone, and the Guard's rule list and
\* resolver stay as configured.
C25_InterleavedCallsIndependent ==
    other.pc # "absent" =>
        /\ AsIfAlone(Frame, SentBy(Frame))
        /\ AsIfAlone(other, SentBy(other))

\* two protected calls took turns (the first ran its pre stage, the second
\* started, the first went on to its callable and post stage, then the
\* second did); both evaluated a rule, one returned and one was stopped
C25_Witness ==
    /\ pc = "done"
    /\ other.pc = "done"
    /\ mode = "protect"
    /\ other.mode = "protect"
    /\ {ctx, other.ctx} = {3, 4}
    /\ refs[3].origin = 1
    /\ refs[4].origin = 2
    /\ evalLog # <<>>
    /\ other.evalLog # <<>>
    /\ outcome # other.outcome

(* ------------------------------- C26 ----------------------------------- *)
\* the number of role validations of rule `name` in stage `stg`
ValidationCount(name, stg) ==
    Cardinality({ i \in DOMAIN validated :
                    validated[i].rule = name /\ validated[i].stage = stg })

\* the stage runs a call has entered so far
StageRunsEntered ==
    CASE pc = "idle" -> 0
      [] mode = "protect" /\ stage = "post" -> 2
      [] OTHER -> 1

\* C26: nothing is retried.  Within one guarded call the body of each rule
\* is invoked (and its roles validated) at most once per stage, the resolver
\* at most once per stage run and the wrapped callable at most once,
\* whether rules fail, are denied or raise, or the callable raises.
C26_NothingRetried ==
    /\ \A name \in DOMAIN rules : \A stg \in Stages :
          /\ EvalCount(name, stg) <= 1
          /\ ValidationCount(name, stg) <= 1
    /\ resolverCalls <= StageRunsEntered
    /\ funcCalls <= 1
    /\ mode = "check" => funcCalls = 0

\* a protected call ended on a raising callable after a rule was evaluated
\* and the roles were resolved: each happened once
C26_Witness ==
    /\ pc = "done"
    /\ raised.cls = "FuncFault"
    /\ funcCalls = 1
    /\ resolverCalls = 1
    /\ evalLog # <<>>

\* a call ended on a rule fault with every count at one
C26_WitnessFault ==
    /\ pc = "done"
    /\ SomeFaulted
    /\ resolverCalls = 1
    /\ \E name \in DOMAIN rules : EvalCount(name, stage) = 1

(* ------------------------------- C27 ----------------------------------- *)
\* the position of entry i of a log among the entries of its stage
StagePosition(log, i) ==
    Cardinality({ j \in 1..i : log[j].stage = log[i].stage })

\* C27: within one call, on either dispatch path, rules run one after
\* another: when a rule's roles are validated and when its body is invoked,
\* every rule before it in that stage run has had its result appended, and
\* both sinks have received the event of every rule handled before it in
\* the call.
C27_RulesRunOneAfterAnother ==
    /\ \A i \in DOMAIN validated :
          /\ validated[i].nresults = StagePosition(validated, i) - 1
          /\ validated[i].naudit = i - 1
          /\ validated[i].nperf = i - 1
    /\ \A k \in DOMAIN evalLog :
          /\ evalLog[k].nresults = StagePosition(evalLog, k) - 1
          /\ evalLog[k].naudit = k - 1
          /\ evalLog[k].nperf = k - 1
    /\ Len(evalLog) <= Len(validated)

\* on the asynchronous path the second rule of a stage was evaluated after
\* the first rule's result and events
C27_Witness ==
    /\ isAsync
    /\ \E k \in DOMAIN evalLog :
          /\ evalLog[k].nresults = 1
          /\ evalLog[k].naudit >= 1
          /\ evalLog[k].nperf >= 1

(* ------------------------------- C28 ----------------------------------- *)
\* the call is under way
Running == pc \in {"resolve", "rules", "func"}

\* the call has returned or raised, and no rule body was invoked more than
\* once in a stage
Terminated ==
    /\ pc = "done"
    /\ outcome \in {"returned", "raised"}
    /\ \A name \in DOMAIN rules : \A stg \in Stages : EvalCount(name, stg) <= 1
    /\ mode = "check" => \A k \in DOMAIN evalLog : evalLog[k].stage = stage

\* C28: with collaborators that terminate, every Protect call and every
\* Check call that has started eventually returns or raises, having invoked
\* each selected rule at most once per stage (a Check call only rules of
\* the requested stage).
C28_CallTerminates == Running ~> Terminated

\* a protected call ran both stages and the callable, and returned
C28_Witness ==
    /\ Terminated
    /\ mode = "protect"
    /\ outcome = "returned"
    /\ funcCalls = 1
    /\ \E i, j \in DOMAIN evalLog : evalLog[i].stage = "pre" /\ evalLog[j].stage = "post"

\* a Check call went through its stage and returned a Report
C28_WitnessCheck ==
    /\ Terminated
    /\ mode = "check"
    /\ outcome = "returned"
    /\ Len(evalLog) >= 2

(* ------------------------------- C29 ----------------------------------- *)
\* C29 (as claimed): when the audit sink or the performance sink raises
\* while receiving an event, in Protect or in Check mode, the error that
\* reaches the caller is the sink's own exception: the engine neither
\* catches it nor turns it into an orchestration error.
C29_SinkFailurePropagates ==
    (pc = "done" /\ (raised.cls = "SinkFault" \/ raised.cause = "SinkFault")) =>
        /\ raised.cls = "SinkFault"
        /\ raised.cause = "none"

(* ------------------------------- C30 ----------------------------------- *)
\* C30: in Protect mode the denial of a rule ends the call there.  The
\* denied rule is the last one role-validated; it has no result and no sink
\* event and its body was not invoked; no rule after it in that stage was
\* validated or evaluated; nothing is returned; and after a denial in the
\* pre stage the wrapped callable was not invoked.
C30_ProtectDenialAborts ==
    (mode = "protect" /\ SomeDenied) =>
        LET d == validated[Len(validated)] IN
          /\ pc = "done"
          /\ outcome = "raised"
          /\ raised.cause = "RBACError"
          /\ returned = None
          /\ DeniedEntry(d)
          /\ d.stage = stage
          /\ \A i \in 1..(Len(validated) - 1) : ~DeniedEntry(validated[i])
          /\ ~Evaluated(d.rule, d.stage)
          /\ \A k \in DOMAIN results : results[k].rule # d.rule
          /\ ~SinkEvent(d.rule, d.stage)
          /\ \A r \in DOMAIN rules :
                r > d.rule =>
                    /\ ~Evaluated(r, d.stage)
                    /\ ~SinkEvent(r, d.stage)
                    /\ ValidationCount(r, d.stage) = 0
          /\ d.stage = "pre" =>
                /\ funcCalls = 0
                /\ funcResult = None
                /\ Len(heap) = 1

\* a protected call was denied in the pre stage with a selected rule still
\* to come
C30_Witness ==
    /\ mode = "protect"
    /\ SomeDenied
    /\ stage = "pre"
    /\ idx < Len(rules_for_stage("pre"))

\* a protected call was denied in the post stage, after the callable ran
C30_WitnessPost ==
    /\ mode = "protect"
    /\ SomeDenied
    /\ stage = "post"
    /\ funcCalls = 1
    /\ idx < Len(rules_for_stage("post"))

(* ------------------------------- C31 ----------------------------------- *)
\* C31 (as claimed): configuration errors are detected eagerly.  An
\* unsupported schema descriptor or an unknown rule name is rejected by the
\* constructor of the rule or guard it is handed to, and no call on an object
\* that was constructed successfully fails because of an unsupported schema
\* type or an unknown rule name.
C31_ConfigurationErrorsEager ==
    /\ (given.cls = "SchemaRule" /\ ~schema_supported(given.schema))
          => bpc = "rejected"
    /\ (given.cls = "Guard" /\ \E i \in 1..Len(given.rules) : given.rules[i] = "unknown")
          => vpc = "rejected"
    /\ (given.cls = "Guard" /\ given.schema # NoSchema /\ ~schema_supported(given.schema))
          => vpc = "rejected"
    /\ (bpc = "evaluated" \/ vpc \in {"validating", "done"})
          => thrown.message.kind \notin {"unsupported_schema", "unknown_rule"}

(* ------------------------------- C32 ----------------------------------- *)
\* the rbac_resolver raised during this call
ResolverFailed == raised.cls = "ResolverFault" \/ raised.cause = "ResolverFault"

\* C32: when the rbac_resolver raises, the stage run it was called for ends
\* there: no rule of that stage was role-validated or evaluated, no sink got
\* an event of that stage, check returns no Report, a pre-stage failure keeps
\* the wrapped callable from running, and the caller receives the resolver's
\* own exception, not a GuardError, in Protect and in Check mode.
C32_ResolverFailurePropagates ==
    ResolverFailed =>
        /\ raised = ResolverFault
        /\ pc = "done"
        /\ outcome = "raised"
        /\ \A i \in DOMAIN validated : validated[i].stage # stage
        /\ \A i \in DOMAIN evalLog : evalLog[i].stage # stage
        /\ \A i \in DOMAIN auditEvents : auditEvents[i].stage # stage
        /\ \A i \in DOMAIN perfEvents : perfEvents[i].result.stage # stage
        /\ results = <<>>
        /\ report = NoReport
        /\ returned = None
        /\ (mode = "protect" /\ stage = "pre") => funcCalls = 0

\* the resolver raised in the first stage run of a check that has rules to run
C32_Witness ==
    /\ ResolverFailed
    /\ mode = "check"
    /\ rules_for_stage(stage) # <<>>

\* the resolver raised in the post stage of a protected call, after the pre
\* stage evaluated a rule and the wrapped callable ran
C32_WitnessProtectPost ==
    /\ ResolverFailed
    /\ mode = "protect"
    /\ stage = "post"
    /\ funcCalls = 1
    /\ evalLog # <<>>
    /\ rules_for_stage("post") # <<>>

(* ------------------------------- C33 ----------------------------------- *)
\* the wrapped callable raised during this call
FuncFailed == raised.cls = "FuncFault" \/ raised.cause = "FuncFault"

\* C33: when the wrapped callable raises in a protected call, the post stage
\* never starts: no rule is role-validated or evaluated for it, the resolver
\* is not consulted again, no sink gets a post-stage event; the caller
\* receives the callable's own exception; and the sinks keep the events of
\* the pre stage, one per selected pre-stage rule, in order.
C33_FuncFailureSkipsPost ==
    FuncFailed =>
        /\ raised = FuncFault
        /\ pc = "done"
        /\ outcome = "raised"
        /\ mode = "protect"
        /\ funcCalls = 1
        /\ stage = "pre"
        /\ \A i \in DOMAIN validated : validated[i].stage = "pre"
        /\ \A i \in DOMAIN evalLog : evalLog[i].stage = "pre"
        /\ resolverCalls = (IF rbac_resolver THEN 1 ELSE 0)
        /\ returned = None
        /\ Len(auditEvents) = Len(rules_for_stage("pre"))
        /\ Len(perfEvents) = Len(rules_for_stage("pre"))
        /\ \A i \in DOMAIN auditEvents :
              /\ auditEvents[i].rule = rules_for_stage("pre")[i].name
              /\ auditEvents[i].stage = "pre"
              /\ perfEvents[i].result.rule = rules_for_stage("pre")[i].name
              /\ perfEvents[i].result.stage = "pre"

\* the callable raised after a pre-stage rule was evaluated and its events
\* were emitted, on a Guard with a resolver and a rule waiting in the post stage
C33_Witness ==
    /\ FuncFailed
    /\ rbac_resolver
    /\ auditEvents # <<>>
    /\ rules_for_stage("post") # <<>>

(* ------------------------------- C34 ----------------------------------- *)
\* the caller's context as it was when the running check call was entered:
\* as the caller built it, or as an earlier pre-stage check left it
ContextAtEntry ==
    IF first # NoFirst /\ first.report.context = callerCtx
    THEN first.context
    ELSE CallerContext

\* C34: a check or check_async call for the post stage leaves the context
\* the caller supplied as it was (inputs, output, metadata and tags, and the
\* objects they refer to); the rules run on, and the Report carries, another
\* context object, derived from it, whose output is the payload.
C34_PostCheckKeepsCallerContext ==
    (mode = "check" /\ stage = "post" /\ callerCtx # 0) =>
        /\ heap[callerCtx] = ContextAtEntry
        /\ refs[callerCtx] = FreshRefs(callerCtx)
        /\ ctx # callerCtx
        /\ heap[ctx] = with_output(ContextAtEntry, payload)
        /\ heap[ctx].output = payload
        /\ refs[ctx].origin = callerCtx
        /\ \A i \in DOMAIN evalLog :
              /\ evalLog[i].ctx = ctx
              /\ evalLog[i].context = heap[ctx]
        /\ outcome = "returned" => report.context = ctx

\* a post-stage check with a supplied context evaluated a rule and returned
C34_Witness ==
    /\ mode = "check"
    /\ stage = "post"
    /\ callerCtx # 0
    /\ first = NoFirst
    /\ outcome = "returned"
    /\ evalLog # <<>>

\* the same for a later post-stage call on a context that an earlier
\* pre-stage check had written its payload into
C34_WitnessLater ==
    /\ mode = "check"
    /\ stage = "post"
    /\ first # NoFirst
    /\ first.report.context = callerCtx
    /\ first.context.inputs \in Payloads
    /\ outcome = "returned"
    /\ evalLog # <<>>

(* ------------------------------- C35 ----------------------------------- *)
\* the guards that were enabled when the chain was built, in list order
EnabledAtConstruction == chain_guards(given.guards)

\* the consultations made by the present or last run of chain method m
ChainRun(m) == SelectSeq(consulted, LAMBDA e : e.method = m)

\* the response list of the present or last run of chain method m
RunList(m) ==
    IF method = m THEN responses
    ELSE IF m = "check_input" /\ wmode = "wrapper" THEN input_responses
    ELSE <<>>

\* C35: check_input and check_output consult the guards that were enabled
\* when the chain was built, in list order, and stop at the first BLOCK.  The
\* consultations of a run are a prefix of that list; a BLOCK is the last
\* element of the response list, so there is at most one; once a guard has
\* blocked, the loop is over; a run without a BLOCK consults every one of
\* those guards; and the caller gets the list the loop built.
C35_ChainStopsAtFirstBlock ==
    wpc \in {"chain", "llm", "retry", "done"} =>
        /\ \A m \in {"check_input", "check_output"} :
              /\ Len(ChainRun(m)) <= Len(EnabledAtConstruction)
              /\ \A i \in DOMAIN ChainRun(m) :
                    ChainRun(m)[i].guard = EnabledAtConstruction[i]
              /\ Len(RunList(m)) = Len(ChainRun(m))
              /\ \A i \in DOMAIN RunList(m) :
                    RunList(m)[i].result = "BLOCK" => i = Len(RunList(m))
        /\ Blocked(responses) # <<>> => ChainDone \/ wpc \in {"llm", "retry", "done"}
        /\ (Blocked(responses) = <<>> /\ (ChainDone \/ wpc \in {"llm", "retry", "done"}))
              => Len(responses) = Len(EnabledAtConstruction)
        /\ wreturned.kind = "responses" => wreturned.value = responses

\* a chain method called directly returned a list that ends in a BLOCK while
\* an enabled guard placed after the blocking one was never consulted
C35_Witness ==
    /\ wmode = "direct"
    /\ wpc = "done"
    /\ responses # <<>>
    /\ responses[Len(responses)].result = "BLOCK"
    /\ Len(ChainRun(method)) < Len(EnabledAtConstruction)

\* the BLOCK came from a later guard, after an earlier guard had answered
C35_WitnessSecond ==
    /\ wpc = "done"
    /\ Len(responses) >= 2
    /\ responses[Len(responses)].result = "BLOCK"

\* a guard whose flag was cleared after the chain was built was consulted
C35_WitnessDisabledLater ==
    /\ wpc = "done"
    /\ \E i \in DOMAIN consulted : ~config.guards[consulted[i].guard].enabled

(* ------------------------------- C36 ----------------------------------- *)
\* consultation i of the run of method m ended in an exception of the guard
Failed(m, i) ==
    guard_check(config.guards[ChainRun(m)[i].guard], m, ChainRun(m)[i].text).raises

\* C36: a guard whose check_input or check_output raises neither blocks nor
\* stops the chain.  The list holds a WARN response with confidence 0.0 in
\* that guard's place, the next enabled guard is consulted, the list has
\* one response per consultation, and the exception does not reach the
\* caller: a direct caller gets the list, and the wrapper goes on.
C36_FailingGuardIsSkipped ==
    /\ \A m \in {"check_input", "check_output"} :
          /\ Len(RunList(m)) = Len(ChainRun(m))
          /\ \A i \in DOMAIN ChainRun(m) :
                Failed(m, i) =>
                    /\ RunList(m)[i].result = "WARN"
                    /\ RunList(m)[i].confidence = "0.0"
                    /\ RunList(m)[i] = FailedResponse(config.guards[ChainRun(m)[i].guard])
                    /\ i < Len(chain) =>
                          \/ Len(ChainRun(m)) > i
                          \/ (method = m /\ wpc = "chain" /\ gidx = i + 1)
    /\ wmode = "direct" => thrown = NoExc
    /\ (wmode = "direct" /\ wpc = "done") => wreturned = [kind |-> "responses", value |-> responses]
    /\ thrown.cls \in {"none", "SafetyException", "FuncFault", "ExtractFault", "PrintFault"}

\* a direct call returned after its first guard raised and a later one answered
C36_Witness ==
    /\ wmode = "direct"
    /\ wpc = "done"
    /\ Len(ChainRun(method)) >= 2
    /\ Failed(method, 1)
    /\ ~Failed(method, 2)

\* in a wrapper call a guard raised on the response and the response was returned
C36_WitnessWrapper ==
    /\ wmode = "wrapper"
    /\ wpc = "done"
    /\ \E i \in DOMAIN ChainRun("check_output") : Failed("check_output", i)
    /\ wreturned.kind = "response"

(* ------------------------------- C37 ----------------------------------- *)
\* C37: with fail_open false the wrapped function is not invoked once an
\* input guard returned BLOCK, and no response is returned for which an
\* output guard returned BLOCK.  In both cases the caller gets a
\* SafetyException that carries the whole response list of that stage, one
\* response per guard consulted, ending in the BLOCK.
C37_BlockedCallsRaise ==
    (wmode = "wrapper" /\ ~config.fail_open) =>
        /\ Blocked(input_responses) # <<>> =>
              /\ llmCalls = <<>>
              /\ wpc = "done"
              /\ wreturned = NoReturn
              /\ thrown = SafetyException("request_blocked", input_responses)
              /\ input_responses = RunList("check_input")
              /\ ChainRun("check_output") = <<>>
        /\ Blocked(output_responses) # <<>> =>
              /\ wpc = "done"
              /\ wreturned = NoReturn
              /\ thrown = SafetyException("response_blocked", output_responses)
              /\ output_responses = RunList("check_output")
        /\ thrown.cls = "SafetyException" =>
              /\ thrown.results # <<>>
              /\ thrown.results[Len(thrown.results)].result = "BLOCK"
              /\ \/ Len(thrown.results) = Len(ChainRun("check_input")) /\ llmCalls = <<>>
                 \/ Len(thrown.results) = Len(ChainRun("check_output")) /\ Len(llmCalls) = 1
        /\ (wpc = "llm" \/ llmCalls # <<>>) => Blocked(RunList("check_input")) = <<>>
        /\ wreturned.kind = "response" =>
              /\ wreturned.value = response
              /\ Blocked(RunList("check_output")) = <<>>
              /\ \A i \in DOMAIN consulted : consulted[i].method = "check_output" =>
                    guard_check(config.guards[consulted[i].guard], "check_output",
                                extract_response_text(response)).response.result # "BLOCK"

\* a second input guard blocked the prompt: the function was never invoked
\* and the exception carries both responses
C37_Witness ==
    /\ wmode = "wrapper"
    /\ ~config.fail_open
    /\ thrown.cls = "SafetyException"
    /\ thrown.message.kind = "request_blocked"
    /\ Len(thrown.results) = 2
    /\ llmCalls = <<>>

\* an output guard blocked the response of the function
C37_WitnessOutput ==
    /\ wmode = "wrapper"
    /\ ~config.fail_open
    /\ thrown.cls = "SafetyException"
    /\ thrown.message.kind = "response_blocked"
    /\ Len(llmCalls) = 1
    /\ wreturned = NoReturn

(* ------------------------------- C38 ----------------------------------- *)
\* C38: in one wrapper call the wrapped function is invoked at most once
\* when fail_open is false.  When fail_open is true and the first invocation
\* raises, or the processing of its output raises, the function is invoked
\* once more, in the handler: that is its second and last invocation, no
\* guard is consulted after it, and what it returns or raises is what the
\* caller gets.
C38_AtMostOneRetry ==
    wmode = "wrapper" =>
        /\ ~config.fail_open => Len(llmCalls) <= 1
        /\ Len(llmCalls) <= 2
        /\ \A i \in DOMAIN llmCalls : llmCalls[i].guarded <=> i = 1
        /\ wpc = "retry" => config.fail_open /\ Len(llmCalls) = 1
        /\ (wpc = "done" /\ config.fail_open /\ llmCalls # <<>> /\
            (llmCalls[1].ended = "raised" \/ extract_raises(response)))
              => Len(llmCalls) = 2
        /\ Len(llmCalls) = 2 =>
              /\ config.fail_open
              /\ wpc = "done"
              /\ llmCalls[2].nconsulted = Len(consulted)
              /\ llmCalls[2].ended = "returned" =>
                    /\ wreturned = [kind |-> "response", value |-> llmCalls[2].value]
                    /\ thrown = NoExc
              /\ llmCalls[2].ended = "raised" =>
                    /\ wreturned = NoReturn
                    /\ thrown = FuncFault

\* fail_open: the first invocation raised and the second one returned a
\* response that an enabled guard would block
C38_Witness ==
    /\ wmode = "wrapper"
    /\ config.fail_open
    /\ Len(llmCalls) = 2
    /\ llmCalls[1].ended = "raised"
    /\ wreturned.kind = "response"
    /\ wreturned.value.content = "bad"
    /\ \E i \in DOMAIN chain : config.guards[chain[i]].kind = "block"

\* fail_open: the audit print raised after the output guards were consulted,
\* and the second invocation raised
C38_WitnessOutputProcessing ==
    /\ wmode = "wrapper"
    /\ config.fail_open
    /\ Len(llmCalls) = 2
    /\ llmCalls[1].ended = "returned"
    /\ ChainRun("check_output") # <<>>
    /\ thrown = FuncFault

\* fail_open false: the only invocation raised and its exception reached the caller
C38_WitnessStrict ==
    /\ wmode = "wrapper"
    /\ ~config.fail_open
    /\ Len(llmCalls) = 1
    /\ thrown = FuncFault

(* ------------------------------- C39 ----------------------------------- *)
\* C39 (as claimed): constructing a PIIRule with an explicitly empty pattern
\* mapping fails with GuardConfigurationError("PIIRule requires at least one
\* detection pattern"); so every PIIRule that exists has a non-empty pattern
\* set, and it is the caller's whenever the caller supplied one.
C39_EmptyPatternsRejected ==
    given.cls = "PIIRule" =>
        /\ (~given.patterns.none /\ given.patterns.keys = {} /\ rule_stages_ok(given.stages))
              => /\ bpc = "rejected"
                 /\ thrown = GuardConfigurationError("no_patterns")
        /\ bpc \in {"built", "evaluated"}
              => /\ built.patterns # {}
                 /\ ~given.patterns.none => built.patterns = given.patterns.keys

====
